---- MODULE Spec2Model ----
(***************************************************************************)
(* Model of youtube-toolkit: the metrics derivation engine                 *)
(* (src/src/metrics.py: parse_duration, calculate_engagement_metrics),     *)
(* the orchestration that feeds it and the validation of the API key       *)
(* (src/src/analyzer.py), the report renderers that read its results       *)
(* (src/src/exporters.py), the transcript downloader                       *)
(* (src/src/transcript.py) and the methods of src/src/main.py that stand   *)
(* beside those of metrics.py and analyzer.py.                             *)
(*                                                                         *)
(* Conventions.                                                            *)
(*  - A Python str is a sequence of one-character strings.                 *)
(*  - A Python dict is a function whose DOMAIN is its set of keys.         *)
(*  - Objects live in `heap`, a function from references to dicts; a list  *)
(*    is a sequence of references.                                         *)
(*  - A fallible computation yields a record with a `raised` flag.         *)
(*  - A float is modelled by the exact rational [n, d] it approximates;    *)
(*    round(x, k) yields the integer x * 10^k rounded half to even, so     *)
(*    engagement_rate_views = 6000 stands for 6.000 and view_rate = 1000   *)
(*    for 10.00.                                                           *)
(***************************************************************************)
EXTENDS Integers, Sequences, FiniteSets, TLC

VARIABLES
    duration,          \* parse_duration: the argument
    pd_pc,             \* parse_duration: "call", "matched", "done", "raised"
    match,             \* parse_duration: the result of re.match
    pd_result,         \* parse_duration: the returned integer
    heap,              \* reference -> dict
    videos,            \* calculate_engagement_metrics: argument, a list of references
    subscriber_count,  \* calculate_engagement_metrics: argument
    enhanced_videos,   \* calculate_engagement_metrics: the list being built
    idx,               \* position of the for loop in videos
    pc,                \* "idle", "call", "loop", "done", "raised"
    call_heap,         \* history: the heap when the call was made
    call_videos,       \* history: the list contents when the call was made
    history,           \* history: the arguments and the result of every call returned
    channel_list,      \* get_multiple_channels_videos: argument, a list of dicts
    max_results_per_channel,  \* get_multiple_channels_videos: argument
    api,               \* the answers the YouTube Data API may give
    ch_pc,             \* "idle", "for", "resolve", "info", "uploads", "pages",
                       \* "stats", "batch", "gcv_return", "enrich", "raise",
                       \* "returned"
    cur,               \* position of the for loop in channel_list
    exc,               \* the message of the exception raised, "" for none
    channel_id,        \* get_channel_videos: argument and local
    username,          \* get_channel_videos: argument
    custom_url,        \* get_channel_videos: argument
    max_results,       \* get_channel_videos: argument
    channel_info,      \* get_channel_videos: the dict of get_channel_info
    gcv_videos,        \* get_channel_videos: its list `videos`, of references
    next_page_token,   \* get_channel_videos: local
    batch_start,       \* get_videos_statistics: i of the for loop
    videos_with_stats, \* get_videos_statistics: the list being built
    all_channels_data, \* get_multiple_channels_videos: the list returned
    failed_channels,   \* get_multiple_channels_videos: local
    requested,         \* history: the kinds of request made for the channel
    page_asked,        \* history: the last playlistItems request
    overfull,          \* history: a page held more items than asked for
    fetched,           \* history: what get_channel_videos returned, per channel
    stat_requests,     \* history: the videos().list requests of the call
    enrich_log,        \* history: the calls of calculate_engagement_metrics
    stored,            \* history: the entries of all_channels_data when appended
    channels_data,     \* the exporters' argument: a list of dicts
    files,             \* what the exporters wrote, in order
    ex_calls,          \* the number of exporter calls made
    given,             \* history: channels_data and its records before any export
    probe,             \* validate_api_key: what request.execute() does
    vk_pc,             \* "idle", "try", "except HttpError", "except Exception",
                       \* "returned", "raised"
    vk_result,         \* validate_api_key: the value returned, "" for none
    vk_exc,            \* validate_api_key: the exception that left it
    sources,           \* get_transcript: what the network and the disk hold
    tr_pc,             \* "idle", "fetch", "list", "fallback", "returned",
                       \* "raised", "saved"
    tried,             \* history: the sources get_transcript went to, in order
    tr_result,         \* get_transcript: the str returned or the exception
    written            \* save_transcript: the files written

pd_vars == <<duration, pd_pc, match, pd_result>>
em_vars == <<heap, videos, subscriber_count, enhanced_videos, idx, pc,
             call_heap, call_videos, history>>
in_vars == <<channel_list, max_results_per_channel, api>>
gcv_vars == <<channel_id, username, custom_url, max_results, channel_info,
              gcv_videos, next_page_token>>
gvs_vars == <<batch_start, videos_with_stats>>
out_vars == <<all_channels_data, failed_channels>>
ghost_vars ==
    <<requested, page_asked, overfull, fetched, stat_requests, enrich_log, stored>>
ch_vars == <<in_vars, ch_pc, cur, exc, gcv_vars, gvs_vars, out_vars, ghost_vars>>
ex_vars == <<channels_data, files, ex_calls, given>>
vk_vars == <<probe, vk_pc, vk_result, vk_exc>>
tr_vars == <<sources, tr_pc, tried, tr_result, written>>
vars == <<duration, pd_pc, match, pd_result, heap, videos, subscriber_count,
          enhanced_videos, idx, pc, call_heap, call_videos, history, ch_vars,
          ex_vars, vk_vars, tr_vars>>

(***************************************************************************)
(* Bounds of the model.                                                    *)
(***************************************************************************)
\* longest arbitrary string handed to parse_duration
MaxLen == 5
\* longest tail after "PT" of a duration-like string handed to parse_duration
MaxTail == 6
\* longest list handed to calculate_engagement_metrics
MaxVideos == 2
\* most calls of calculate_engagement_metrics made one after the other
MaxCalls == 3
\* most channels in a channel_list
MaxChannels == 2
\* largest small max_results
MaxResults == 2
\* largest max_results above the 50 of a full page
MaxOverCap == 1
\* most exporter calls made one after the other
MaxExports == 2

Max(S) == CHOOSE m \in S : \A o \in S : o <= m
Min(S) == CHOOSE m \in S : \A o \in S : m <= o

RECURSIVE Pow10(_)
Pow10(k) == IF k = 0 THEN 1 ELSE 10 * Pow10(k - 1)

(***************************************************************************)
(* Characters and strings.                                                 *)
(***************************************************************************)
Digit == {"0", "1", "2", "3", "4", "5", "6", "7", "8", "9"}

DigitVal(c) ==
    CASE c = "0" -> 0 [] c = "1" -> 1 [] c = "2" -> 2 [] c = "3" -> 3
      [] c = "4" -> 4 [] c = "5" -> 5 [] c = "6" -> 6 [] c = "7" -> 7
      [] c = "8" -> 8 [] c = "9" -> 9

\* the characters arbitrary inputs are drawn from
Chars == {"P", "T", "H", "M", "S", "0", "1", "x"}
\* the characters the tail of a duration-like input is drawn from
TailChars == {"H", "M", "S", "0", "1"}

StringsOver(A, n) == UNION {[1..k -> A] : k \in 0..n}

(***************************************************************************)
(* re.match(r'PT(?:(\d+)H)?(?:(\d+)M)?(?:(\d+)S)?', duration)              *)
(***************************************************************************)
\* the number of characters \d+ can take at position p: the digit run there
DigitRun(s, p) ==
    LET stops == {q \in p..Len(s) : s[q] \notin Digit}
    IN  IF p > Len(s) THEN 0
        ELSE IF stops = {} THEN Len(s) - p + 1
        ELSE Min(stops) - p

\* (\d+)<unit> looked for anywhere from position p on, as a re.search for
\* each unit would find it
OptionalGroupSearched(s, p, unit) ==
    LET qs == {q \in p..Len(s) :
                  DigitRun(s, q) >= 1 /\ q + DigitRun(s, q) <= Len(s)
                  /\ s[q + DigitRun(s, q)] = unit}
    IN  IF qs = {} THEN [some |-> FALSE, text |-> <<>>, end |-> p]
        ELSE [some |-> TRUE,
              text |-> SubSeq(s, Min(qs), Min(qs) + DigitRun(s, Min(qs)) - 1),
              end |-> Min(qs) + DigitRun(s, Min(qs)) + 1]

\* (?:(\d+)<unit>)? at position p. \d+ is greedy and backtracks: the longest
\* k >= 1 digits followed by the unit letter; the group is skipped when there
\* is none. What follows in the pattern can always match empty, so the first
\* alternative that succeeds here is the one the whole match keeps.
OptionalGroup(s, p, unit) ==
    LET ks == {k \in 1..DigitRun(s, p) : p + k <= Len(s) /\ s[p + k] = unit}
    IN  IF ks = {} THEN [some |-> FALSE, text |-> <<>>, end |-> p]
        ELSE [some |-> TRUE, text |-> SubSeq(s, p, p + Max(ks) - 1),
              end |-> p + Max(ks) + 1]

NoMatch == [some |-> FALSE,
            g1 |-> [some |-> FALSE, text |-> <<>>],
            g2 |-> [some |-> FALSE, text |-> <<>>],
            g3 |-> [some |-> FALSE, text |-> <<>>],
            end |-> 0]

\* the pattern tried at position p only
MatchAt(s, p) ==
    IF p + 1 <= Len(s) /\ s[p] = "P" /\ s[p + 1] = "T"
    THEN LET h == OptionalGroup(s, p + 2, "H")
             m == OptionalGroup(s, h.end, "M")
             sec == OptionalGroup(s, m.end, "S")
         IN  [some |-> TRUE,
              g1 |-> [some |-> h.some, text |-> h.text],
              g2 |-> [some |-> m.some, text |-> m.text],
              g3 |-> [some |-> sec.some, text |-> sec.text],
              end |-> sec.end]
    ELSE NoMatch

\* re.search: the leftmost position at which the pattern matches
re_search(s) ==
    LET ps == {p \in 1..Len(s) : MatchAt(s, p).some}
    IN  IF ps = {} THEN NoMatch
        ELSE MatchAt(s, Min(ps))

\* re.match: anchored at the start of the string
re_match(s) == MatchAt(s, 1)

(***************************************************************************)
(* int(match.group(i) or 0)                                                *)
(***************************************************************************)
RECURSIVE int(_)
int(text) ==
    IF text = <<>> THEN 0
    ELSE int(SubSeq(text, 1, Len(text) - 1)) * 10 + DigitVal(text[Len(text)])

\* match.group(i) or 0: None and the empty string are falsy
GroupOrZero(g) == IF g.some /\ g.text # <<>> THEN int(g.text) ELSE 0

Returned(v) == [raised |-> FALSE, val |-> v]
Raised == [raised |-> TRUE, val |-> 0]

\* lines 15-19 with the guard of lines 12-13 missing: None.group raises
ConvertUnguarded(m) ==
    IF ~m.some THEN Raised
    ELSE Returned(GroupOrZero(m.g1) * 3600 + GroupOrZero(m.g2) * 60
                  + GroupOrZero(m.g3))

\* lines 12-19 with the minutes weighted as seconds
ConvertMinutesAsSeconds(m) ==
    IF ~m.some THEN Returned(0)
    ELSE Returned(GroupOrZero(m.g1) * 3600 + GroupOrZero(m.g2)
                  + GroupOrZero(m.g3))

\* lines 12-19 of parse_duration, given the match
Convert(m) ==
    IF ~m.some THEN Returned(0)
    ELSE Returned(GroupOrZero(m.g1) * 3600 + GroupOrZero(m.g2) * 60
                  + GroupOrZero(m.g3))

parse_duration(d) == Convert(re_match(d))

(***************************************************************************)
(* parse_duration as a process: the inputs, the match, the conversion.     *)
(***************************************************************************)
PT == <<"P", "T">>

\* the strings parse_duration is handed: arbitrary short strings, and longer
\* ones that start with PT and go on with digits and unit letters
\* the forms spec.md section 8 lists
CanonicalForms ==
    { <<"P", "T", "1", "H", "2", "M", "1", "0", "S">>,
      <<"P", "T", "5", "M">>,
      <<"P", "T", "4", "5", "S">>,
      <<"P", "T", "0", "S">>,
      <<"P", "T">>,
      <<"g", "a", "r", "b", "a", "g", "e">> }

\* a duration with a day component, and durations with components out of
\* order
OutOfOrderForms ==
    { <<"P", "1", "D", "T", "2", "H">>,
      <<"P", "T", "5", "S", "3", "M">>,
      <<"P", "T", "3", "M", "1", "H">> }

DurationInputs ==
    StringsOver(Chars, MaxLen)
        \cup {PT \o t : t \in StringsOver(TailChars, MaxTail)}
        \cup CanonicalForms
        \cup OutOfOrderForms

\* the orchestration's None: a value no str equals
None == <<"None">>


\* a service that answers every request in full
Plain ==
    [answers |-> {"items"}, subscribers |-> {<<"3">>}, pages |-> {"full"},
     tokens |-> {None}, stats |-> {0}]

NoPage == [maxResults |-> 0, collected |-> 0]

\* nothing called yet
ChIdle ==
    /\ channel_list = <<>>
    /\ max_results_per_channel = 0
    /\ api = Plain
    /\ ch_pc = "idle"
    /\ cur = 1
    /\ exc = ""
    /\ channel_id = None
    /\ username = None
    /\ custom_url = None
    /\ max_results = 0
    /\ channel_info = <<>>
    /\ gcv_videos = <<>>
    /\ next_page_token = None
    /\ batch_start = 0
    /\ videos_with_stats = <<>>
    /\ all_channels_data = <<>>
    /\ failed_channels = <<>>
    /\ requested = {}
    /\ page_asked = NoPage
    /\ overfull = FALSE
    /\ fetched = <<>>
    /\ stat_requests = <<>>
    /\ enrich_log = <<>>
    /\ stored = <<>>

\* no exporter called, nothing to export
ExIdle ==
    /\ channels_data = <<>>
    /\ files = <<>>
    /\ ex_calls = 0
    /\ given = [data |-> <<>>, records |-> <<>>]

\* no exception
NoException == [type |-> "", message |-> ""]

\* get_transcript has neither returned nor raised
NoResult == [type |-> "", text |-> <<>>, message |-> ""]

\* validate_api_key is not running
VkIdle ==
    /\ probe = [kind |-> "ok"]
    /\ vk_pc = "idle"
    /\ vk_result = ""
    /\ vk_exc = NoException

\* get_transcript and save_transcript are not running
TrIdle ==
    /\ sources = <<>>
    /\ tr_pc = "idle"
    /\ tried = <<>>
    /\ tr_result = NoResult
    /\ written = <<>>

EmIdle ==
    /\ heap = <<>>
    /\ videos = <<>>
    /\ subscriber_count = 0
    /\ enhanced_videos = <<>>
    /\ idx = 0
    /\ pc = "idle"
    /\ call_heap = <<>>
    /\ call_videos = <<>>
    /\ history = <<>>

PdInit ==
    /\ duration \in DurationInputs
    /\ pd_pc = "call"
    /\ match = NoMatch
    /\ pd_result = 0
    /\ EmIdle
    /\ ChIdle
    /\ ExIdle
    /\ VkIdle
    /\ TrIdle

\* line 10: match = re.match(pattern, duration)
PdMatch ==
    /\ pd_pc = "call"
    /\ match' = re_match(duration)
    /\ pd_pc' = "matched"
    /\ UNCHANGED <<duration, pd_result>>
    /\ UNCHANGED em_vars
    /\ UNCHANGED ch_vars
    /\ UNCHANGED <<ex_vars, vk_vars, tr_vars>>

\* lines 12-19: the early return of 0, or the sum of the three components
PdReturn ==
    /\ pd_pc = "matched"
    /\ pd_result' = Convert(match).val
    /\ pd_pc' = IF Convert(match).raised THEN "raised" ELSE "done"
    /\ UNCHANGED <<duration, match>>
    /\ UNCHANGED em_vars
    /\ UNCHANGED ch_vars
    /\ UNCHANGED <<ex_vars, vk_vars, tr_vars>>

PdNext == PdMatch \/ PdReturn

SpecParse == PdInit /\ [][PdNext]_vars

(***************************************************************************)
(* Python values calculate_engagement_metrics works on.                    *)
(***************************************************************************)
\* dict.get(key, default)
DictGet(d, key, default) == IF key \in DOMAIN d THEN d[key] ELSE default

\* dict.update(other) replacing the dict's items instead of adding to them
DictReplace(d, other) == other

\* dict.update(other): other's items added to d, other's value on a shared key
DictUpdate(d, other) ==
    [k \in DOMAIN d \cup DOMAIN other |->
        IF k \in DOMAIN other THEN other[k] ELSE d[k]]

\* enhanced_video = video: a second name for the same dict
DictAlias(h, ref) == [heap |-> h, ref |-> ref]

\* video.copy(): a new dict with the same items (the values are ints and
\* strs, which are immutable, so a shallow copy shares nothing mutable)
DictCopy(h, ref) == [heap |-> Append(h, h[ref]), ref |-> Len(h) + 1]

\* list.insert(0, x)
ListPrepend(l, x) == <<x>> \o l

\* list.append(x)
ListAppend(l, x) == Append(l, x)

\* a float: the rational n / d with d > 0, or the exception that replaced it
Float(n, d) == [raised |-> FALSE, n |-> n, d |-> d]
ZeroDivisionError == [raised |-> TRUE, n |-> 0, d |-> 1]

\* a / b on ints
TrueDiv(a, b) ==
    IF b = 0 THEN ZeroDivisionError
    ELSE IF b > 0 THEN Float(a, b) ELSE Float(-a, -b)

\* a / q, q a float
DivByFloat(a, q) ==
    IF q.raised \/ q.n = 0 THEN ZeroDivisionError
    ELSE IF q.n > 0 THEN Float(a * q.d, q.n) ELSE Float(-(a * q.d), -q.n)

\* q * 100
Times100(q) == IF q.raised THEN q ELSE Float(q.n * 100, q.d)

\* n / d cut to the integer below it instead of rounded
RoundDown(n, d) == n \div d

\* n / d rounded to the nearest integer, a tie to the even one
RoundHalfEven(n, d) ==
    LET q == n \div d
        r == n - q * d
    IN  IF 2 * r < d THEN q
        ELSE IF 2 * r > d THEN q + 1
        ELSE IF q % 2 = 0 THEN q ELSE q + 1

\* round(x, ndigits), in units of 10^-ndigits
round(x, ndigits) == RoundHalfEven(x.n * Pow10(ndigits), x.d)

(***************************************************************************)
(* calculate_engagement_metrics: the body of the for loop.                 *)
(***************************************************************************)
PT0S == <<"P", "T", "0", "S">>

\* video['view_count'], video['like_count'], video['comment_count']
ReadCountersSubscript(video) ==
    IF {"view_count", "like_count", "comment_count"} \subseteq DOMAIN video
    THEN [raised |-> FALSE, view_count |-> video["view_count"],
          like_count |-> video["like_count"],
          comment_count |-> video["comment_count"]]
    ELSE [raised |-> TRUE, view_count |-> 0, like_count |-> 0, comment_count |-> 0]

\* lines 29-31
ReadCounters(video) ==
    [raised |-> FALSE,
     view_count |-> DictGet(video, "view_count", 0),
     like_count |-> DictGet(video, "like_count", 0),
     comment_count |-> DictGet(video, "comment_count", 0)]

\* lines 33-35 with the comments left out of the numerator
EngagementRateViewsLikesOnly(view_count, like_count, comment_count) ==
    IF view_count > 0 THEN Times100(TrueDiv(like_count, view_count)) ELSE Float(0, 1)

\* lines 33-35 without the guard of line 34
EngagementRateViewsUnguarded(view_count, like_count, comment_count) ==
    Times100(TrueDiv(like_count + comment_count, view_count))

\* lines 33-35 with the guard of line 34 written view_count != 0
EngagementRateViewsNonZero(view_count, like_count, comment_count) ==
    IF view_count # 0
    THEN Times100(TrueDiv(like_count + comment_count, view_count))
    ELSE Float(0, 1)

\* lines 33-35
EngagementRateViews(view_count, like_count, comment_count) ==
    IF view_count > 0
    THEN Times100(TrueDiv(like_count + comment_count, view_count))
    ELSE Float(0, 1)

\* lines 37-39
EngagementRateSubscribers(like_count, comment_count, subs) ==
    IF subs > 0
    THEN Times100(TrueDiv(like_count + comment_count, subs))
    ELSE Float(0, 1)

\* lines 41-43 with the denominator floored at 1 instead of guarded
ViewRateFloored(view_count, subs) ==
    Times100(TrueDiv(view_count, IF subs > 1 THEN subs ELSE 1))

\* lines 41-43
ViewRate(view_count, subs) ==
    IF subs > 0 THEN Times100(TrueDiv(view_count, subs)) ELSE Float(0, 1)

\* lines 45-47
LikeRate(view_count, like_count) ==
    IF view_count > 0 THEN Times100(TrueDiv(like_count, view_count)) ELSE Float(0, 1)

\* lines 49-51
CommentRate(view_count, comment_count) ==
    IF view_count > 0 THEN Times100(TrueDiv(comment_count, view_count)) ELSE Float(0, 1)

\* line 53 with another default than 'PT0S'
DurationSecondsDefaultMinute(video) ==
    parse_duration(DictGet(video, "duration", <<"P", "T", "1", "M">>))

\* line 53
DurationSeconds(video) == parse_duration(DictGet(video, "duration", PT0S))

\* lines 55-57 with the duration floored at one second instead of guarded
ViewsPerMinuteFloored(view_count, duration_seconds) ==
    DivByFloat(view_count,
               TrueDiv(IF duration_seconds > 1 THEN duration_seconds ELSE 1, 60))

\* lines 55-57
ViewsPerMinute(view_count, duration_seconds) ==
    IF duration_seconds > 0
    THEN DivByFloat(view_count, TrueDiv(duration_seconds, 60))
    ELSE Float(0, 1)

\* lines 29-67 with lines 37-39 nested under the view_count guard of line 34
DerivedFieldsNested(video, subs) ==
    LET c == ReadCounters(video)
        erv == EngagementRateViews(c.view_count, c.like_count, c.comment_count)
        ers == IF c.view_count > 0
               THEN EngagementRateSubscribers(c.like_count, c.comment_count, subs)
               ELSE Float(0, 1)
        vr == ViewRate(c.view_count, subs)
        lr == LikeRate(c.view_count, c.like_count)
        cr == CommentRate(c.view_count, c.comment_count)
        ds == DurationSeconds(video)
        vpm == IF ds.raised THEN ZeroDivisionError
               ELSE ViewsPerMinute(c.view_count, ds.val)
    IN  IF c.raised \/ erv.raised \/ ers.raised \/ vr.raised \/ lr.raised
           \/ cr.raised \/ ds.raised \/ vpm.raised
        THEN [raised |-> TRUE, val |-> <<>>]
        ELSE [raised |-> FALSE,
              val |-> [engagement_rate_views |-> round(erv, 3),
                       engagement_rate_subscribers |-> round(ers, 3),
                       view_rate |-> round(vr, 2),
                       like_rate |-> round(lr, 3),
                       comment_rate |-> round(cr, 3),
                       duration_seconds |-> ds.val,
                       views_per_minute |-> round(vpm, 2)]]

\* lines 29-67: the dict handed to enhanced_video.update, or the exception
DerivedFields(video, subs) ==
    LET c == ReadCounters(video)
        erv == EngagementRateViews(c.view_count, c.like_count, c.comment_count)
        ers == EngagementRateSubscribers(c.like_count, c.comment_count, subs)
        vr == ViewRate(c.view_count, subs)
        lr == LikeRate(c.view_count, c.like_count)
        cr == CommentRate(c.view_count, c.comment_count)
        ds == DurationSeconds(video)
        vpm == IF ds.raised THEN ZeroDivisionError
               ELSE ViewsPerMinute(c.view_count, ds.val)
    IN  IF c.raised \/ erv.raised \/ ers.raised \/ vr.raised \/ lr.raised
           \/ cr.raised \/ ds.raised \/ vpm.raised
        THEN [raised |-> TRUE, val |-> <<>>]
        ELSE [raised |-> FALSE,
              val |-> [engagement_rate_views |-> round(erv, 3),
                       engagement_rate_subscribers |-> round(ers, 3),
                       view_rate |-> round(vr, 2),
                       like_rate |-> round(lr, 3),
                       comment_rate |-> round(cr, 3),
                       duration_seconds |-> ds.val,
                       views_per_minute |-> round(vpm, 2)]]

(***************************************************************************)
(* The calls of calculate_engagement_metrics.                              *)
(***************************************************************************)
RawCounters == {-1, 0, 1, 3}
Subscribers == {-1, 0, 1, 3}
Durations ==
    { PT0S, <<"P", "T">>, <<"P", "T", "7", "S">>, <<"P", "T", "1", "M">>,
      <<"x">> }

IdPool == <<"vA", "vB", "vC", "vD">>

\* what get_channel_videos puts in the i-th record
Identity(i) ==
    [id |-> IdPool[i],
     title |-> "title",
     published_at |-> "2024-05-01T12:00:00Z",
     url |-> <<"https://www.youtube.com/watch?v=", IdPool[i]>>]

Optional(key, values) == {<<>>} \cup {key :> v : v \in values}

\* a record with any of the four raw fields missing
AnyRecords(i) ==
    { Identity(i) @@ v @@ l @@ c @@ d :
        v \in Optional("view_count", RawCounters),
        l \in Optional("like_count", RawCounters),
        c \in Optional("comment_count", RawCounters),
        d \in Optional("duration", Durations) }

\* a record as get_videos_statistics leaves it: the four raw fields present
StatRecords(i) ==
    { Identity(i) @@ [view_count |-> v, like_count |-> l, comment_count |-> c,
                      duration |-> d] :
        v \in {0, 3}, l \in {0, 1}, c \in {0, 3},
        d \in {PT0S, <<"P", "T", "7", "S">>} }

RECURSIVE StatHeaps(_)
StatHeaps(n) ==
    IF n = 0 THEN {<<>>}
    ELSE {Append(h, r) : h \in StatHeaps(n - 1), r \in StatRecords(n)}

\* the dicts of the argument list: none, one of any shape, or up to
\* MaxVideos as the statistics fetch leaves them
InputHeaps ==
    {<<>>} \cup {<<r>> : r \in AnyRecords(1)}
           \cup UNION {StatHeaps(n) : n \in 2..MaxVideos}

\* the two scenarios of spec.md section 8
ScenarioVideo ==
    Identity(1) @@ [view_count |-> 1000, like_count |-> 50, comment_count |-> 10,
                    duration |-> <<"P", "T", "1", "0", "M", "0", "S">>]

ScenarioZeroViews ==
    Identity(1) @@ [view_count |-> 0, like_count |-> 50, comment_count |-> 10,
                    duration |-> <<"P", "T", "1", "0", "M", "0", "S">>]

ScenarioCalls ==
    { [heap |-> <<ScenarioVideo>>, subscriber_count |-> 10000],
      [heap |-> <<ScenarioZeroViews>>, subscriber_count |-> 500] }

\* the arguments of a call
Calls ==
    {[heap |-> h, subscriber_count |-> n] : h \in InputHeaps, n \in Subscribers}
        \cup ScenarioCalls

PdIdle ==
    /\ duration = <<>>
    /\ pd_pc = "idle"
    /\ match = NoMatch
    /\ pd_result = 0

Init ==
    /\ \E call \in Calls :
          /\ heap = call.heap
          /\ subscriber_count = call.subscriber_count
    /\ videos = [i \in 1..Len(heap) |-> i]
    /\ enhanced_videos = <<>>
    /\ idx = 0
    /\ pc = "call"
    /\ call_heap = heap
    /\ call_videos = videos
    /\ history = <<>>
    /\ PdIdle
    /\ ChIdle
    /\ ExIdle
    /\ VkIdle
    /\ TrIdle

\* line 24 with the list kept from one call to the next (a list that is a
\* default argument or a module global): the for loop starts on the old list
EnterKeepingList ==
    /\ pc = "call"
    /\ enhanced_videos' = enhanced_videos
    /\ idx' = 1
    /\ pc' = "loop"
    /\ UNCHANGED <<heap, videos, subscriber_count, call_heap, call_videos, history>>
    /\ UNCHANGED pd_vars
    /\ UNCHANGED ch_vars
    /\ UNCHANGED <<ex_vars, vk_vars, tr_vars>>

\* line 24: enhanced_videos = [], and the for loop starts
Enter ==
    /\ pc = "call"
    /\ enhanced_videos' = <<>>
    /\ idx' = 1
    /\ pc' = "loop"
    /\ UNCHANGED <<heap, videos, subscriber_count, call_heap, call_videos, history>>
    /\ UNCHANGED pd_vars
    /\ UNCHANGED ch_vars
    /\ UNCHANGED <<ex_vars, vk_vars, tr_vars>>

\* lines 26-69: one turn of the for loop
Iterate ==
    /\ pc = "loop"
    /\ idx <= Len(videos)
    /\ LET video == heap[videos[idx]]
           copy == DictCopy(heap, videos[idx])
           fields == DerivedFields(video, subscriber_count)
       IN  IF fields.raised
           THEN /\ heap' = copy.heap
                /\ pc' = "raised"
                /\ UNCHANGED <<enhanced_videos, idx>>
           ELSE /\ heap' = [copy.heap EXCEPT
                              ![copy.ref] = DictUpdate(@, fields.val)]
                /\ enhanced_videos' = ListAppend(enhanced_videos, copy.ref)
                /\ idx' = idx + 1
                /\ pc' = "loop"
    /\ UNCHANGED <<videos, subscriber_count, call_heap, call_videos, history>>
    /\ UNCHANGED pd_vars
    /\ UNCHANGED ch_vars
    /\ UNCHANGED <<ex_vars, vk_vars, tr_vars>>

\* the dicts a list of references stands for
Deref(h, l) == [i \in 1..Len(l) |-> h[l[i]]]

\* line 71: return enhanced_videos
Return ==
    /\ pc = "loop"
    /\ idx > Len(videos)
    /\ pc' = "done"
    /\ history' = Append(history,
                         [videos |-> Deref(call_heap, call_videos),
                          subscriber_count |-> subscriber_count,
                          result |-> Deref(heap, enhanced_videos)])
    /\ UNCHANGED <<heap, videos, subscriber_count, enhanced_videos, idx,
                   call_heap, call_videos>>
    /\ UNCHANGED pd_vars
    /\ UNCHANGED ch_vars
    /\ UNCHANGED <<ex_vars, vk_vars, tr_vars>>

Next == Enter \/ Iterate \/ Return

Spec == Init /\ [][Next]_vars

(***************************************************************************)
(* Calls of calculate_engagement_metrics made one after the other, as      *)
(* get_multiple_channels_videos makes them, one per channel.               *)
(***************************************************************************)
\* the arguments of the calls of a sequence: no, one or two records
SequenceCalls ==
    {[heap |-> h, subscriber_count |-> n] :
        h \in {<<>>,
                <<Identity(1) @@ [view_count |-> 3, like_count |-> 1,
                                  comment_count |-> 3, duration |-> PT0S]>>,
                <<Identity(1) @@ [view_count |-> 3, like_count |-> 1,
                                  comment_count |-> 3, duration |-> PT0S],
                  Identity(2) @@ [view_count |-> 0, like_count |-> 0,
                                  comment_count |-> 3,
                                  duration |-> <<"P", "T", "7", "S">>]>>},
        n \in {0, 3}}

CallsInit ==
    /\ \E call \in SequenceCalls :
          /\ heap = call.heap
          /\ subscriber_count = call.subscriber_count
    /\ videos = [i \in 1..Len(heap) |-> i]
    /\ enhanced_videos = <<>>
    /\ idx = 0
    /\ pc = "call"
    /\ call_heap = heap
    /\ call_videos = videos
    /\ history = <<>>
    /\ PdIdle
    /\ ChIdle
    /\ ExIdle
    /\ VkIdle
    /\ TrIdle

\* the caller calls again, with new dicts in a new list; what the last call
\* left in its local variables is still there
CallAgain ==
    /\ pc = "done"
    /\ Len(history) < MaxCalls
    /\ \E call \in SequenceCalls :
          /\ heap' = heap \o call.heap
          /\ videos' = [i \in 1..Len(call.heap) |-> Len(heap) + i]
          /\ subscriber_count' = call.subscriber_count
    /\ call_heap' = heap'
    /\ call_videos' = videos'
    /\ pc' = "call"
    /\ UNCHANGED <<enhanced_videos, idx, history>>
    /\ UNCHANGED pd_vars
    /\ UNCHANGED ch_vars
    /\ UNCHANGED <<ex_vars, vk_vars, tr_vars>>

CallsNext == Enter \/ Iterate \/ Return \/ CallAgain

SpecCalls == CallsInit /\ [][CallsNext]_vars

(***************************************************************************)
(* The orchestration (src/src/analyzer.py): get_channel_videos,            *)
(* get_videos_statistics and get_multiple_channels_videos, against a       *)
(* YouTube Data API that gives each request one of the answers `api`       *)
(* allows.  The strs the code tests or converts are sequences of           *)
(* characters; None is a value no str equals.                              *)
(***************************************************************************)
\* the truth value of a str or None
Truthy(x) == x # None /\ x # <<>>

\* a call that returned val, or raised an exception with message exc
Ok(v) == [exc |-> "", val |-> v]
Fail(message) == [exc |-> message, val |-> None]

\* int(text) for a str: the decimal digits' value, ValueError for a text that
\* is empty or holds anything but digits
IntStr(text) ==
    IF text # <<>> /\ \A p \in 1..Len(text) : text[p] \in Digit
    THEN Ok(int(text))
    ELSE Fail("invalid literal for int() with base 10")

\* the literal 50 of min(50, max_results - len(videos))
PageCap == 50
\* YOUTUBE_API_BATCH_SIZE
YOUTUBE_API_BATCH_SIZE == 50

\* the channel the service has for a username or for a handle
ChannelOf(name) == <<"U", "C">> \o name

\* get_channel_id_from_username
get_channel_id_from_username(name, answer) ==
    CASE answer = "HttpError" -> Fail("HttpError")
      [] answer = "empty" -> Fail("No channel found with username")
      [] answer = "items" -> Ok(ChannelOf(name))

\* custom_url[1:] if custom_url.startswith('@')
StripAt(s) == IF Len(s) > 0 /\ s[1] = "@" THEN SubSeq(s, 2, Len(s)) ELSE s

\* get_channel_id_from_custom_url
get_channel_id_from_custom_url(handle, answer) ==
    CASE answer = "HttpError" -> Fail("HttpError")
      [] answer = "empty" -> Fail("No channel found with custom URL")
      [] answer = "items" -> Ok(ChannelOf(StripAt(handle)))

\* lines 131-138: the channel id get_channel_videos goes on with
ResolveChannelId(c, u, cu, answer) ==
    IF c = None /\ u = None /\ cu = None
    THEN Fail("Must provide channel_id, username, or custom_url")
    ELSE IF c # None THEN Ok(c)
    ELSE IF Truthy(u) THEN get_channel_id_from_username(u, answer)
    ELSE IF Truthy(cu) THEN get_channel_id_from_custom_url(cu, answer)
    ELSE Ok(c)

\* get_channel_info: the service has no channel for the id None; raw is the
\* subscriberCount of the answer, None when the answer has none
get_channel_info(c, answer, raw) ==
    CASE answer = "HttpError" -> Fail("HttpError")
      [] answer = "empty" \/ (answer = "items" /\ c = None) ->
            Fail("No channel found with ID")
      [] answer = "items" /\ c # None ->
            Ok([id |-> c,
                title |-> <<"title of", c>>,
                description |-> "description",
                subscriber_count |-> raw,
                video_count |-> <<"7">>,
                view_count |-> <<"9">>,
                thumbnail |-> "thumbnail",
                url |-> <<"https://www.youtube.com/channel/", c>>])

\* lines 142-151: the uploads playlist of the channel
UploadsPlaylist(c, answer) ==
    CASE answer = "HttpError" -> Fail("HttpError")
      [] answer = "empty" \/ (answer = "items" /\ c = None) ->
            Fail("No channel found with ID")
      [] answer = "items" /\ c # None -> Ok(<<"uploads of", c>>)

\* the id of the k-th video of a channel's uploads playlist
VideoId(c, k) == <<"video", c, k>>

\* lines 166-171: video_info
video_info(video_id) ==
    [id |-> video_id,
     title |-> "title",
     published_at |-> "2024-05-01T12:00:00Z",
     url |-> <<"https://www.youtube.com/watch?v=", video_id>>]

\* line 160: maxResults of the request
PageRequestUncapped(limit, collected) == PageCap
PageRequest(limit, collected) == Min({PageCap, limit - collected})

\* the items of a page of each kind, for a request of `asked` items
PageSize(kind, asked) ==
    CASE kind = "full" -> asked
      [] kind = "short" -> Max({asked - 1, 0})
      [] kind = "one" -> Min({asked, 1})
      [] kind = "empty" -> 0
      [] kind = "over" -> asked + 1

\* the items of videos().list the service has: what it answers for a video
\* goes by the video's place in the playlist
StatsItems ==
    << [present |-> TRUE,
        item |-> [statistics |-> [viewCount |-> <<"3">>, likeCount |-> <<"1">>,
                                  commentCount |-> <<"0">>],
                  contentDetails |-> [duration |-> <<"P", "T", "7", "S">>]]],
       [present |-> FALSE, item |-> <<>>],
       [present |-> TRUE,
        item |-> [statistics |-> [viewCount |-> <<"3">>],
                  contentDetails |-> [duration |-> <<"P", "T", "1", "M">>]]],
       [present |-> TRUE,
        item |-> [statistics |-> [likeCount |-> <<"1">>,
                                  commentCount |-> <<"3">>]]],
       [present |-> TRUE,
        item |-> [contentDetails |-> [duration |-> <<"P", "T", "7", "S">>]]] >>

StatsAnswer(video_id, offset) ==
    StatsItems[((video_id[3] + offset) % Len(StatsItems)) + 1]

\* lines 199-204: stats_map, for the ids of a batch
StatsMap(ids, offset) ==
    [v \in {w \in ids : StatsAnswer(w, offset).present} |->
        [statistics |-> DictGet(StatsAnswer(v, offset).item, "statistics", <<>>),
         contentDetails |->
             DictGet(StatsAnswer(v, offset).item, "contentDetails", <<>>)]]

\* int(stats.get(key, 0))
IntOrZero(stats, key) ==
    IF key \in DOMAIN stats THEN IntStr(stats[key]) ELSE Ok(0)

\* lines 208-224 without the else branch: nothing for an id not in the answer
StatFieldsPresentOnly(stats_map, video_id) ==
    IF video_id \in DOMAIN stats_map
    THEN LET stats == stats_map[video_id].statistics
             content_details == stats_map[video_id].contentDetails
             v == IntOrZero(stats, "viewCount")
             l == IntOrZero(stats, "likeCount")
             c == IntOrZero(stats, "commentCount")
         IN  IF v.exc # "" THEN v
             ELSE IF l.exc # "" THEN l
             ELSE IF c.exc # "" THEN c
             ELSE Ok([view_count |-> v.val,
                      like_count |-> l.val,
                      comment_count |-> c.val,
                      duration |-> DictGet(content_details, "duration", PT0S)])
    ELSE Ok(<<>>)

\* lines 208-224: the four fields video.update adds
StatFields(stats_map, video_id) ==
    IF video_id \in DOMAIN stats_map
    THEN LET stats == stats_map[video_id].statistics
             content_details == stats_map[video_id].contentDetails
             v == IntOrZero(stats, "viewCount")
             l == IntOrZero(stats, "likeCount")
             c == IntOrZero(stats, "commentCount")
         IN  IF v.exc # "" THEN v
             ELSE IF l.exc # "" THEN l
             ELSE IF c.exc # "" THEN c
             ELSE Ok([view_count |-> v.val,
                      like_count |-> l.val,
                      comment_count |-> c.val,
                      duration |-> DictGet(content_details, "duration", PT0S)])
    ELSE Ok([view_count |-> 0, like_count |-> 0, comment_count |-> 0,
             duration |-> PT0S])

\* line 252: int(channel_info.get('subscriber_count', 0) or 0)
SubscriberCount(info) ==
    IF "subscriber_count" \notin DOMAIN info THEN Ok(0)
    ELSE IF ~Truthy(info["subscriber_count"]) THEN Ok(0)
    ELSE IntStr(info["subscriber_count"])

\* the channel with number c of a channel_list, given by its id
ChannelById(c) == [channel_id |-> <<"U", "C", IdPool[c]>>]

\* a channel given in any of the ways the code tells apart
Descriptors ==
    { c @@ u @@ cu :
        c \in Optional("channel_id", {<<"U", "C", IdPool[1]>>}),
        u \in Optional("username", {<<>>, <<"u">>}),
        cu \in Optional("custom_url", {<<"@", "h">>}) }

\* what the service may answer
AnyAnswers == {"items", "empty", "HttpError"}
AnySubscribers == {None, <<>>, <<"0">>, <<"3">>, <<"a", "b", "c">>}
AnyPages == {"full", "short", "one", "empty", "over"}
AnyTokens == {None, <<"t">>}

\* one channel given in any way, the lookups answered in any way
ResolutionRuns ==
    {[channel_list |-> <<d>>, max_results_per_channel |-> 1,
      api |-> [Plain EXCEPT !.answers = AnyAnswers]] : d \in Descriptors}

\* one channel, its subscriber count, pages and statistics of any kind
ValueRuns ==
    {[channel_list |-> <<ChannelById(1)>>, max_results_per_channel |-> m,
      api |-> [answers |-> {"items"}, subscribers |-> AnySubscribers,
               pages |-> AnyPages, tokens |-> AnyTokens,
               stats |-> 0..(Len(StatsItems) - 1)]] : m \in (-1)..MaxResults}

\* no channel, or several channels, some of which fail
ChannelLists ==
    {[c \in 1..n |-> ChannelById(c)] : n \in {0} \cup 2..MaxChannels}

ChannelRuns ==
    {[channel_list |-> l, max_results_per_channel |-> MaxResults,
      api |-> [answers |-> AnyAnswers, subscribers |-> {None, <<"3">>},
               pages |-> {"full", "short"}, tokens |-> {None},
               stats |-> {0}]] : l \in ChannelLists}

Runs == ResolutionRuns \cup ValueRuns \cup ChannelRuns

\* get_channel_videos asked for about one page or two
PaginationRuns ==
    {[channel_list |-> <<ChannelById(1)>>, max_results_per_channel |-> m,
      api |-> [answers |-> {"items", "HttpError"}, subscribers |-> {<<"3">>},
               pages |-> AnyPages, tokens |-> AnyTokens, stats |-> {0}]] :
        m \in (-1)..MaxResults \cup PageCap..(PageCap + MaxOverCap)}

\* lines 236-237: get_multiple_channels_videos is called
ChannelsInit ==
    /\ \E run \in Runs :
          /\ channel_list = run.channel_list
          /\ max_results_per_channel = run.max_results_per_channel
          /\ api = run.api
    /\ ch_pc = "for"
    /\ cur = 1
    /\ exc = ""
    /\ channel_id = None
    /\ username = None
    /\ custom_url = None
    /\ max_results = 0
    /\ channel_info = <<>>
    /\ gcv_videos = <<>>
    /\ next_page_token = None
    /\ batch_start = 0
    /\ videos_with_stats = <<>>
    /\ all_channels_data = <<>>
    /\ failed_channels = <<>>
    /\ requested = {}
    /\ page_asked = NoPage
    /\ overfull = FALSE
    /\ fetched = <<>>
    /\ stat_requests = <<>>
    /\ enrich_log = <<>>
    /\ stored = <<>>
    /\ EmIdle
    /\ PdIdle
    /\ ExIdle
    /\ VkIdle
    /\ TrIdle

\* get_channel_videos asked for a few videos of a service that hands out a
\* new page token with every page
LoopRuns ==
    {[channel_list |-> <<ChannelById(1)>>, max_results_per_channel |-> m,
      api |-> [answers |-> {"items", "HttpError"}, subscribers |-> {<<"3">>},
               pages |-> AnyPages, tokens |-> {None, <<"t">>, <<"u">>},
               stats |-> {0}]] : m \in (-1)..MaxResults}

\* lines 123-129: get_channel_videos is called on its own, with a channel id
VideosCalled(run) ==
    /\ channel_list = run.channel_list
    /\ max_results_per_channel = run.max_results_per_channel
    /\ max_results = run.max_results_per_channel
    /\ api = run.api
    /\ channel_id = run.channel_list[1].channel_id
    /\ ch_pc = "resolve"
    /\ cur = 1
    /\ exc = ""
    /\ username = None
    /\ custom_url = None
    /\ channel_info = <<>>
    /\ gcv_videos = <<>>
    /\ next_page_token = None
    /\ batch_start = 0
    /\ videos_with_stats = <<>>
    /\ all_channels_data = <<>>
    /\ failed_channels = <<>>
    /\ requested = {}
    /\ page_asked = NoPage
    /\ overfull = FALSE
    /\ fetched = <<>>
    /\ stat_requests = <<>>
    /\ enrich_log = <<>>
    /\ stored = <<>>
    /\ EmIdle
    /\ PdIdle
    /\ ExIdle
    /\ VkIdle
    /\ TrIdle

VideosInit == \E run \in PaginationRuns : VideosCalled(run)

LoopInit == \E run \in LoopRuns : VideosCalled(run)

\* lines 239-250: the next channel of channel_list, get_channel_videos called
NextChannel ==
    /\ ch_pc = "for"
    /\ cur <= Len(channel_list)
    /\ channel_id' = DictGet(channel_list[cur], "channel_id", None)
    /\ username' = DictGet(channel_list[cur], "username", None)
    /\ custom_url' = DictGet(channel_list[cur], "custom_url", None)
    /\ max_results' = max_results_per_channel
    /\ ch_pc' = "resolve"
    /\ requested' = {}
    /\ page_asked' = NoPage
    /\ overfull' = FALSE
    /\ UNCHANGED <<cur, exc, channel_info, gcv_videos, next_page_token>>
    /\ UNCHANGED <<fetched, enrich_log, stored, stat_requests>>
    /\ UNCHANGED <<in_vars, gvs_vars, out_vars, em_vars, pd_vars>>
    /\ UNCHANGED <<ex_vars, vk_vars, tr_vars>>

\* lines 131-138
Resolve ==
    /\ ch_pc = "resolve"
    /\ \E answer \in api.answers :
          LET r == ResolveChannelId(channel_id, username, custom_url, answer)
          IN  /\ exc' = r.exc
              /\ channel_id' = IF r.exc # "" THEN channel_id ELSE r.val
              /\ ch_pc' = IF r.exc # "" THEN "raise" ELSE "info"
    /\ requested' = requested \cup
          (IF channel_id # None \/ (username = None /\ custom_url = None)
           THEN {}
           ELSE IF Truthy(username) THEN {"channels.forUsername"}
           ELSE IF Truthy(custom_url) THEN {"search"}
           ELSE {})
    /\ UNCHANGED <<cur, username, custom_url, max_results, channel_info,
                   gcv_videos, next_page_token>>
    /\ UNCHANGED <<page_asked, overfull, fetched, enrich_log,
                   stored, stat_requests>>
    /\ UNCHANGED <<in_vars, gvs_vars, out_vars, em_vars, pd_vars>>
    /\ UNCHANGED <<ex_vars, vk_vars, tr_vars>>

\* line 140: channel_info = self.get_channel_info(channel_id)
GetChannelInfo ==
    /\ ch_pc = "info"
    /\ \E answer \in api.answers, raw \in api.subscribers :
          LET r == get_channel_info(channel_id, answer, raw)
          IN  /\ exc' = r.exc
              /\ channel_info' = IF r.exc # "" THEN channel_info ELSE r.val
              /\ ch_pc' = IF r.exc # "" THEN "raise" ELSE "uploads"
    /\ requested' = requested \cup {"channels.statistics"}
    /\ UNCHANGED <<cur, channel_id, username, custom_url, max_results,
                   gcv_videos, next_page_token>>
    /\ UNCHANGED <<page_asked, overfull, fetched, enrich_log,
                   stored, stat_requests>>
    /\ UNCHANGED <<in_vars, gvs_vars, out_vars, em_vars, pd_vars>>
    /\ UNCHANGED <<ex_vars, vk_vars, tr_vars>>

\* lines 142-154: the uploads playlist; videos = [], next_page_token = None
GetUploads ==
    /\ ch_pc = "uploads"
    /\ \E answer \in api.answers :
          LET r == UploadsPlaylist(channel_id, answer)
          IN  /\ exc' = r.exc
              /\ ch_pc' = IF r.exc # "" THEN "raise" ELSE "pages"
    /\ gcv_videos' = <<>>
    /\ next_page_token' = None
    /\ requested' = requested \cup {"channels.contentDetails"}
    /\ UNCHANGED <<cur, channel_id, username, custom_url, max_results,
                   channel_info>>
    /\ UNCHANGED <<page_asked, overfull, fetched, enrich_log,
                   stored, stat_requests>>
    /\ UNCHANGED <<in_vars, gvs_vars, out_vars, em_vars, pd_vars>>
    /\ UNCHANGED <<ex_vars, vk_vars, tr_vars>>

\* lines 156-176: one turn of the while loop
FetchPage ==
    /\ ch_pc = "pages"
    /\ Len(gcv_videos) < max_results
    /\ LET asked == PageRequest(max_results, Len(gcv_videos))
       IN  /\ requested' = requested \cup {"playlistItems"}
           /\ page_asked' = [maxResults |-> asked, collected |-> Len(gcv_videos)]
           /\ \/ /\ "HttpError" \in api.answers
                 /\ exc' = "HttpError"
                 /\ ch_pc' = "raise"
                 /\ UNCHANGED <<heap, gcv_videos, next_page_token, overfull>>
              \/ \E kind \in api.pages, token \in api.tokens :
                    LET size == PageSize(kind, asked)
                        collected == Len(gcv_videos)
                    IN  /\ heap' = heap \o
                              [j \in 1..size |->
                                  video_info(VideoId(channel_id, collected + j))]
                        /\ gcv_videos' = gcv_videos \o
                              [j \in 1..size |-> Len(heap) + j]
                        /\ next_page_token' = token
                        /\ overfull' = (overfull \/ size > asked)
                        /\ ch_pc' = IF ~Truthy(token)
                                       \/ collected + size >= max_results
                                    THEN "stats" ELSE "pages"
                        /\ exc' = exc
    /\ UNCHANGED <<cur, channel_id, username, custom_url, max_results,
                   channel_info>>
    /\ UNCHANGED <<fetched, enrich_log, stored, stat_requests>>
    /\ UNCHANGED <<videos, subscriber_count, enhanced_videos, idx, pc,
                   call_heap, call_videos, history>>
    /\ UNCHANGED <<in_vars, gvs_vars, out_vars, pd_vars>>
    /\ UNCHANGED <<ex_vars, vk_vars, tr_vars>>

\* line 156: the while condition is false on entry
LoopExit ==
    /\ ch_pc = "pages"
    /\ ~(Len(gcv_videos) < max_results)
    /\ ch_pc' = "stats"
    /\ UNCHANGED <<cur, exc, gcv_vars, ghost_vars>>
    /\ UNCHANGED <<in_vars, gvs_vars, out_vars, em_vars, pd_vars>>
    /\ UNCHANGED <<ex_vars, vk_vars, tr_vars>>

\* what get_channel_videos returned for the channel
Fetched(list, h) ==
    Append(fetched, [channel |-> cur, channel_info |-> channel_info,
                     videos |-> list, records |-> Deref(h, list)])

\* lines 178, 184-187: get_videos_statistics is called; an empty list is
\* returned as it is (and line 180 returns it)
StatsEnter ==
    /\ ch_pc = "stats"
    /\ IF gcv_videos = <<>>
       THEN /\ videos_with_stats' = gcv_videos
            /\ ch_pc' = "gcv_return"
            /\ fetched' = Fetched(gcv_videos, heap)
            /\ UNCHANGED batch_start
       ELSE /\ videos_with_stats' = <<>>
            /\ batch_start' = 0
            /\ ch_pc' = "batch"
            /\ UNCHANGED fetched
    /\ stat_requests' = <<>>
    /\ UNCHANGED <<cur, exc, gcv_vars>>
    /\ UNCHANGED <<requested, page_asked, overfull, enrich_log, stored>>
    /\ UNCHANGED <<in_vars, out_vars, em_vars, pd_vars>>
    /\ UNCHANGED <<ex_vars, vk_vars, tr_vars>>

\* line 190 with the slice one record longer
BatchOverlapping(list, start) ==
    SubSeq(list, start + 1, Min({start + YOUTUBE_API_BATCH_SIZE + 1, Len(list)}))

\* line 190: batch = videos[i:i+YOUTUBE_API_BATCH_SIZE]
Batch(list, start) ==
    SubSeq(list, start + 1, Min({start + YOUTUBE_API_BATCH_SIZE, Len(list)}))

\* lines 189-226: one batch
StatsBatch ==
    /\ ch_pc = "batch"
    /\ batch_start < Len(gcv_videos)
    /\ requested' = requested \cup {"videos"}
    /\ stat_requests' = Append(stat_requests,
          [j \in 1..Len(Batch(gcv_videos, batch_start)) |->
              heap[Batch(gcv_videos, batch_start)[j]].id])
    /\ LET batch == Batch(gcv_videos, batch_start)
           refs == {batch[j] : j \in 1..Len(batch)}
           video_ids == {heap[r].id : r \in refs}
       IN  \/ /\ "HttpError" \in api.answers
              /\ exc' = "HttpError"
              /\ ch_pc' = "raise"
              /\ UNCHANGED <<heap, batch_start, videos_with_stats>>
           \/ \E offset \in api.stats :
                 LET stats_map == StatsMap(video_ids, offset)
                     failed == {r \in refs :
                                  StatFields(stats_map, heap[r].id).exc # ""}
                 IN  IF failed # {}
                     THEN /\ exc' = "invalid literal for int() with base 10"
                          /\ ch_pc' = "raise"
                          /\ UNCHANGED <<heap, batch_start, videos_with_stats>>
                     ELSE /\ heap' = [r \in DOMAIN heap |->
                                 IF r \in refs
                                 THEN DictUpdate(heap[r],
                                        StatFields(stats_map, heap[r].id).val)
                                 ELSE heap[r]]
                          /\ videos_with_stats' = videos_with_stats \o batch
                          /\ batch_start' = batch_start + YOUTUBE_API_BATCH_SIZE
                          /\ ch_pc' = "batch"
                          /\ exc' = exc
    /\ UNCHANGED <<cur, gcv_vars>>
    /\ UNCHANGED <<page_asked, overfull, fetched, enrich_log, stored>>
    /\ UNCHANGED <<videos, subscriber_count, enhanced_videos, idx, pc,
                   call_heap, call_videos, history>>
    /\ UNCHANGED <<in_vars, out_vars, pd_vars>>
    /\ UNCHANGED <<ex_vars, vk_vars, tr_vars>>

\* lines 228 and 180: get_videos_statistics and get_channel_videos return
StatsReturn ==
    /\ ch_pc = "batch"
    /\ batch_start >= Len(gcv_videos)
    /\ ch_pc' = "gcv_return"
    /\ fetched' = Fetched(videos_with_stats, heap)
    /\ UNCHANGED <<cur, exc, gcv_vars, gvs_vars>>
    /\ UNCHANGED <<requested, page_asked, overfull, enrich_log,
                   stored, stat_requests>>
    /\ UNCHANGED <<in_vars, out_vars, em_vars, pd_vars>>
    /\ UNCHANGED <<ex_vars, vk_vars, tr_vars>>

\* line 253: the arguments of calculate_engagement_metrics, with the records
\* of the channels before put in front of the channel's own
EnrichmentArgumentsShared(list, info) ==
    LET n == SubscriberCount(info)
    IN  IF n.exc # "" THEN n
        ELSE Ok([videos |-> IF all_channels_data = <<>> THEN list
                            ELSE all_channels_data[1].videos \o list,
                 subscriber_count |-> n.val])

\* lines 252-253: the arguments of calculate_engagement_metrics
EnrichmentArguments(list, info) ==
    LET n == SubscriberCount(info)
    IN  IF n.exc # "" THEN n
        ELSE Ok([videos |-> list, subscriber_count |-> n.val])

\* lines 245-253: subscriber_count, and calculate_engagement_metrics called
CallEnrich ==
    /\ ch_pc = "gcv_return"
    /\ LET args == EnrichmentArguments(videos_with_stats, channel_info)
       IN  IF args.exc # ""
           THEN /\ exc' = args.exc
                /\ ch_pc' = "raise"
                /\ UNCHANGED <<videos, subscriber_count, pc, call_heap,
                               call_videos, enrich_log>>
           ELSE /\ videos' = args.val.videos
                /\ subscriber_count' = args.val.subscriber_count
                /\ pc' = "call"
                /\ call_heap' = heap
                /\ call_videos' = args.val.videos
                /\ enrich_log' = Append(enrich_log,
                      [channel |-> cur,
                       videos |-> args.val.videos,
                       subscriber_count |-> args.val.subscriber_count,
                       fetched |-> {f.channel : f \in
                                      {fetched[k] : k \in 1..Len(fetched)}}])
                /\ ch_pc' = "enrich"
                /\ exc' = exc
    /\ UNCHANGED <<heap, enhanced_videos, idx, history>>
    /\ UNCHANGED <<cur, gcv_vars, gvs_vars>>
    /\ UNCHANGED <<requested, page_asked, overfull, fetched,
                   stored, stat_requests>>
    /\ UNCHANGED <<in_vars, out_vars, pd_vars>>
    /\ UNCHANGED <<ex_vars, vk_vars, tr_vars>>

\* lines 253-260: calculate_engagement_metrics returned; the channel's entry
\* is appended, and the for loop goes on
Store ==
    /\ ch_pc = "enrich"
    /\ pc = "done"
    /\ all_channels_data' = Append(all_channels_data,
          [channel |-> channel_info, videos |-> enhanced_videos])
    /\ stored' = Append(stored,
          [index |-> cur, channel |-> channel_info,
           videos |-> Deref(heap, enhanced_videos)])
    /\ pc' = "idle"
    /\ cur' = cur + 1
    /\ ch_pc' = "for"
    /\ UNCHANGED <<heap, videos, subscriber_count, enhanced_videos, idx,
                   call_heap, call_videos, history>>
    /\ UNCHANGED <<exc, failed_channels, gcv_vars, gvs_vars>>
    /\ UNCHANGED <<requested, page_asked, overfull, fetched,
                   enrich_log, stat_requests>>
    /\ UNCHANGED <<in_vars, pd_vars>>
    /\ UNCHANGED <<ex_vars, vk_vars, tr_vars>>

\* lines 262-264 with the exception raised again: the for loop is left
ExceptRaisingAgain ==
    /\ \/ ch_pc = "raise"
       \/ ch_pc = "enrich" /\ pc = "raised"
    /\ failed_channels' = Append(failed_channels,
          [channel |-> channel_list[cur],
           error |-> IF ch_pc = "raise" THEN exc ELSE "ZeroDivisionError"])
    /\ pc' = "idle"
    /\ ch_pc' = "escaped"
    /\ UNCHANGED <<heap, videos, subscriber_count, enhanced_videos, idx,
                   call_heap, call_videos, history>>
    /\ UNCHANGED <<cur, exc, all_channels_data, gcv_vars, gvs_vars, ghost_vars>>
    /\ UNCHANGED <<in_vars, pd_vars>>
    /\ UNCHANGED <<ex_vars, vk_vars, tr_vars>>

\* lines 262-264: except Exception, and the for loop goes on
Except ==
    /\ \/ ch_pc = "raise"
       \/ ch_pc = "enrich" /\ pc = "raised"
    /\ failed_channels' = Append(failed_channels,
          [channel |-> channel_list[cur],
           error |-> IF ch_pc = "raise" THEN exc ELSE "ZeroDivisionError"])
    /\ exc' = ""
    /\ pc' = "idle"
    /\ cur' = cur + 1
    /\ ch_pc' = "for"
    /\ UNCHANGED <<heap, videos, subscriber_count, enhanced_videos, idx,
                   call_heap, call_videos, history>>
    /\ UNCHANGED <<all_channels_data, gcv_vars, gvs_vars, ghost_vars>>
    /\ UNCHANGED <<in_vars, pd_vars>>
    /\ UNCHANGED <<ex_vars, vk_vars, tr_vars>>

\* lines 266-271: return all_channels_data
Finish ==
    /\ ch_pc = "for"
    /\ cur > Len(channel_list)
    /\ ch_pc' = "returned"
    /\ UNCHANGED <<cur, exc, gcv_vars, gvs_vars, out_vars, ghost_vars>>
    /\ UNCHANGED <<in_vars, em_vars, pd_vars>>
    /\ UNCHANGED <<ex_vars, vk_vars, tr_vars>>

ChannelsNext ==
    \/ NextChannel \/ Resolve \/ GetChannelInfo \/ GetUploads \/ FetchPage
    \/ LoopExit \/ StatsEnter \/ StatsBatch \/ StatsReturn \/ CallEnrich
    \/ Enter \/ Iterate \/ Return \/ Store \/ Except \/ Finish

SpecChannels == ChannelsInit /\ [][ChannelsNext]_vars

VideosNext ==
    \/ Resolve \/ GetChannelInfo \/ GetUploads \/ FetchPage \/ LoopExit
    \/ StatsEnter \/ StatsBatch \/ StatsReturn

SpecVideos == VideosInit /\ [][VideosNext]_vars

\* get_channel_videos runs on: a statement that can be executed is executed
SpecLoop == LoopInit /\ [][VideosNext]_vars /\ WF_vars(VideosNext)

(***************************************************************************)
(* validate_api_key (src/src/analyzer.py).  The probe request returns, or  *)
(* raises an HttpError with a status and a body, or raises something else. *)
(* An exception is modelled by its class and its message; of a body only   *)
(* the phrases the code looks for are kept.                                *)
(***************************************************************************)
\* the statuses of lines 38 and 51
BadRequest == 400
Forbidden == 403

\* the class an exception class derives from, of those the code tells apart
Isa(type) ==
    CASE type \in {"ValueError", "UnicodeDecodeError", "JSONDecodeError"} ->
            "ValueError"
      [] type \in {"RuntimeError", "RecursionError"} -> "RuntimeError"
      [] OTHER -> "Exception"

\* what request.execute() may do: e.content is bytes that decode, is empty
\* (str(e) is used), or is bytes that are not UTF-8; phrases are those of the
\* phrases looked for that error_content holds, "invalid" standing for the
\* word in any case
Probes ==
    {[kind |-> "ok"]}
        \cup {[kind |-> "HttpError", status |-> st, content |-> c, phrases |-> ph] :
                 st \in {BadRequest, 401, Forbidden, 404, 500},
                 c \in {"decodable", "empty"},
                 ph \in SUBSET {"API key not valid", "invalid", "API key expired",
                                "quotaExceeded", "accessNotConfigured"}}
        \cup {[kind |-> "HttpError", status |-> st, content |-> "undecodable",
               phrases |-> {}] : st \in {BadRequest, 401, Forbidden, 404, 500}}
        \cup {[kind |-> "Exception", type |-> t] :
                 t \in {"ValueError", "JSONDecodeError", "RuntimeError",
                        "RecursionError", "TimeoutError", "TypeError"}}

ValueError(message) == [type |-> "ValueError", message |-> message]
RuntimeError(message) == [type |-> "RuntimeError", message |-> message]

\* lines 35-65: the exception that leaves the handler of HttpError
HttpErrorRaised(e) ==
    IF e.content = "undecodable"
    THEN [type |-> "UnicodeDecodeError", message |-> "invalid start byte"]
    ELSE IF e.status = BadRequest
    THEN IF "API key not valid" \in e.phrases \/ "invalid" \in e.phrases
         THEN ValueError("Invalid YouTube API key")
         ELSE IF "API key expired" \in e.phrases
         THEN ValueError("YouTube API key has expired")
         ELSE ValueError("API key validation failed")
    ELSE IF e.status = Forbidden
    THEN IF "quotaExceeded" \in e.phrases
         THEN ValueError("YouTube API quota exceeded")
         ELSE IF "accessNotConfigured" \in e.phrases
         THEN ValueError("YouTube Data API v3 is not enabled")
         ELSE ValueError("API access forbidden")
    ELSE RuntimeError("API validation failed with status")

\* lines 66-69 without the test of line 67: every exception is wrapped
ExceptionWrapped(e) == RuntimeError("Unexpected error validating API key")

\* lines 66-69: the exception that leaves the handler of Exception
ExceptionRaised(e) ==
    IF Isa(e.type) \in {"ValueError", "RuntimeError"}
    THEN [type |-> e.type, message |-> ""]
    ELSE RuntimeError("Unexpected error validating API key")

\* validate_api_key is called
ValidateInit ==
    /\ probe \in Probes
    /\ vk_pc = "try"
    /\ vk_result = ""
    /\ vk_exc = NoException
    /\ PdIdle
    /\ EmIdle
    /\ ChIdle
    /\ ExIdle
    /\ TrIdle

\* lines 31-34: the probe request; return True
Execute ==
    /\ vk_pc = "try"
    /\ vk_pc' = CASE probe.kind = "ok" -> "returned"
                  [] probe.kind = "HttpError" -> "except HttpError"
                  [] OTHER -> "except Exception"
    /\ vk_result' = IF probe.kind = "ok" THEN "True" ELSE ""
    /\ UNCHANGED <<probe, vk_exc>>
    /\ UNCHANGED <<pd_vars, em_vars, ch_vars, ex_vars, tr_vars>>

\* lines 35-65
HandleHttpError ==
    /\ vk_pc = "except HttpError"
    /\ vk_exc' = HttpErrorRaised(probe)
    /\ vk_pc' = "raised"
    /\ UNCHANGED <<probe, vk_result>>
    /\ UNCHANGED <<pd_vars, em_vars, ch_vars, ex_vars, tr_vars>>

\* lines 66-69
HandleException ==
    /\ vk_pc = "except Exception"
    /\ vk_exc' = ExceptionRaised(probe)
    /\ vk_pc' = "raised"
    /\ UNCHANGED <<probe, vk_result>>
    /\ UNCHANGED <<pd_vars, em_vars, ch_vars, ex_vars, tr_vars>>

ValidateNext == Execute \/ HandleHttpError \/ HandleException

SpecValidate == ValidateInit /\ [][ValidateNext]_vars

(***************************************************************************)
(* get_transcript and save_transcript (src/src/transcript.py).  The        *)
(* network answers each of the two requests with a transcript or an        *)
(* exception; the disk holds the fixture file or not.                      *)
(***************************************************************************)
\* str.strip()
Strip(s) ==
    LET keep == {p \in 1..Len(s) : s[p] \notin {" ", "\n"}}
    IN  IF keep = {} THEN <<>> ELSE SubSeq(s, Min(keep), Max(keep))

\* lines 46-57: _format_transcript, given the texts of the entries
RECURSIVE FormatTranscript(_)
FormatTranscript(entries) ==
    IF entries = <<>> THEN <<>>
    ELSE LET text == Strip(Head(entries))
             rest == FormatTranscript(Tail(entries))
         IN  IF text = <<>> THEN rest
             ELSE IF rest = <<>> THEN text
             ELSE text \o <<"\n">> \o rest

\* what client.fetch, client.list (with the fetch of its first transcript),
\* the environment and the disk may hold
Sources ==
    LET transcripts == {<<>>, << <<" ", "a", " ">> >>,
                        << <<"a">>, <<" ">>, <<"b">> >>}
        raise(types) == {[kind |-> "raise", type |-> t] : t \in types}
    IN  [fetch : {[kind |-> "ok", transcript |-> t] : t \in transcripts}
                    \cup raise({"TranscriptsDisabled", "NoTranscriptFound",
                                "Exception"}),
         list : {[kind |-> "ok", transcript |-> << <<"c">> >>]}
                    \cup raise({"StopIteration", "Exception"}),
         env : {"unset", "empty", "dir"},
         file : {[kind |-> "missing"], [kind |-> "directory"],
                 [kind |-> "unreadable"]}
                    \cup {[kind |-> "file", content |-> c] :
                            c \in {<<>>, <<" ", "\n">>, <<" ", "d", "\n">>}}]

Str(text) == [type |-> "str", text |-> text, message |-> ""]

\* lines 59-70: _load_fallback_transcript; read tells whether the file was
\* read
LoadFallback(src) ==
    IF src.env \in {"unset", "empty"}
    THEN [read |-> FALSE, kind |-> "None"]
    ELSE IF src.file.kind \in {"missing", "directory"}
    THEN [read |-> FALSE, kind |-> "None"]
    ELSE IF src.file.kind = "unreadable"
    THEN [read |-> TRUE, kind |-> "raise", type |-> "UnicodeDecodeError"]
    ELSE LET content == Strip(src.file.content)
         IN  IF content # <<>>
             THEN [read |-> TRUE, kind |-> "str", text |-> content]
             ELSE [read |-> TRUE, kind |-> "None"]

\* save_transcript is called, and calls get_transcript
TranscriptInit ==
    /\ sources \in Sources
    /\ tr_pc = "fetch"
    /\ tried = <<>>
    /\ tr_result = NoResult
    /\ written = <<>>
    /\ PdIdle
    /\ EmIdle
    /\ ChIdle
    /\ ExIdle
    /\ VkIdle

\* lines 16-19 and 30 with the first handler catching every exception
FetchAnyToList ==
    /\ tr_pc = "fetch"
    /\ tried' = Append(tried, "preferred")
    /\ IF sources.fetch.kind = "ok"
       THEN /\ tr_result' = Str(FormatTranscript(sources.fetch.transcript))
            /\ tr_pc' = "returned"
       ELSE /\ tr_pc' = "list"
            /\ UNCHANGED tr_result
    /\ UNCHANGED <<sources, written>>
    /\ UNCHANGED <<pd_vars, em_vars, ch_vars, ex_vars, vk_vars>>

\* lines 16-19 and 30: the fetch in the preferred languages
Fetch ==
    /\ tr_pc = "fetch"
    /\ tried' = Append(tried, "preferred")
    /\ IF sources.fetch.kind = "ok"
       THEN /\ tr_result' = Str(FormatTranscript(sources.fetch.transcript))
            /\ tr_pc' = "returned"
       ELSE /\ tr_pc' = IF sources.fetch.type
                              \in {"TranscriptsDisabled", "NoTranscriptFound"}
                        THEN "list" ELSE "fallback"
            /\ UNCHANGED tr_result
    /\ UNCHANGED <<sources, written>>
    /\ UNCHANGED <<pd_vars, em_vars, ch_vars, ex_vars, vk_vars>>

\* lines 20-26: the first of the transcripts listed as available
List ==
    /\ tr_pc = "list"
    /\ tried' = Append(tried, "available")
    /\ IF sources.list.kind = "ok"
       THEN /\ tr_result' = Str(FormatTranscript(sources.list.transcript))
            /\ tr_pc' = "returned"
       ELSE /\ tr_pc' = "fallback"
            /\ UNCHANGED tr_result
    /\ UNCHANGED <<sources, written>>
    /\ UNCHANGED <<pd_vars, em_vars, ch_vars, ex_vars, vk_vars>>

\* lines 27-29 and 31-34: the fallback file, or RuntimeError
Fallback ==
    /\ tr_pc = "fallback"
    /\ LET fallback == LoadFallback(sources)
       IN  /\ tried' = tried \o <<"fallback">>
                           \o (IF fallback.read THEN <<"file">> ELSE <<>>)
           /\ tr_result' =
                 CASE fallback.kind = "str" -> Str(fallback.text)
                   [] fallback.kind = "None" ->
                        [type |-> "RuntimeError", text |-> <<>>,
                         message |-> IF tried = <<"preferred">>
                                     THEN "Unexpected error"
                                     ELSE "No transcript available for this video"]
                   [] OTHER ->
                        [type |-> fallback.type, text |-> <<>>, message |-> ""]
           /\ tr_pc' = IF fallback.kind = "str" THEN "returned" ELSE "raised"
    /\ UNCHANGED <<sources, written>>
    /\ UNCHANGED <<pd_vars, em_vars, ch_vars, ex_vars, vk_vars>>

\* lines 38-44: get_transcript returned, and the text is written
Save ==
    /\ tr_pc = "returned"
    /\ written' = Append(written,
          [name |-> "<video_id>_transcript.txt", text |-> tr_result.text])
    /\ tr_pc' = "saved"
    /\ UNCHANGED <<sources, tried, tr_result>>
    /\ UNCHANGED <<pd_vars, em_vars, ch_vars, ex_vars, vk_vars>>

TranscriptNext == Fetch \/ List \/ Fallback \/ Save

SpecTranscript == TranscriptInit /\ [][TranscriptNext]_vars

(***************************************************************************)
(* The methods of the class of src/src/main.py that stand beside the       *)
(* functions of metrics.py and the loop of analyzer.py.                    *)
(***************************************************************************)
\* main.py lines 399-411 with re.search in the place of re.match
MainParseDurationSearched(d) ==
    LET m == re_search(d)
    IN  IF ~m.some THEN Returned(0)
        ELSE Returned(GroupOrZero(m.g1) * 3600 + GroupOrZero(m.g2) * 60
                      + GroupOrZero(m.g3))

\* main.py lines 399-411: parse_duration
MainParseDuration(d) ==
    LET m == re_match(d)
    IN  IF ~m.some THEN Returned(0)
        ELSE LET hours == GroupOrZero(m.g1)
                 minutes == GroupOrZero(m.g2)
                 seconds == GroupOrZero(m.g3)
             IN  Returned(hours * 3600 + minutes * 60 + seconds)

\* main.py lines 338-382: the dict handed to enhanced_video.update, or the
\* exception
MainDerivedFields(video, subs) ==
    LET view_count == DictGet(video, "view_count", 0)
        like_count == DictGet(video, "like_count", 0)
        comment_count == DictGet(video, "comment_count", 0)
        erv == IF view_count > 0
               THEN Times100(TrueDiv(like_count + comment_count, view_count))
               ELSE Float(0, 1)
        ers == IF subs > 0
               THEN Times100(TrueDiv(like_count + comment_count, subs))
               ELSE Float(0, 1)
        vr == IF subs > 0 THEN Times100(TrueDiv(view_count, subs)) ELSE Float(0, 1)
        lr == IF view_count > 0
              THEN Times100(TrueDiv(like_count, view_count)) ELSE Float(0, 1)
        cr == IF view_count > 0
              THEN Times100(TrueDiv(comment_count, view_count)) ELSE Float(0, 1)
        ds == MainParseDuration(DictGet(video, "duration", PT0S))
        vpm == IF ds.raised THEN ZeroDivisionError
               ELSE IF ds.val > 0
               THEN DivByFloat(view_count, TrueDiv(ds.val, 60))
               ELSE Float(0, 1)
    IN  IF erv.raised \/ ers.raised \/ vr.raised \/ lr.raised \/ cr.raised
           \/ ds.raised \/ vpm.raised
        THEN [raised |-> TRUE, val |-> <<>>]
        ELSE [raised |-> FALSE,
              val |-> [engagement_rate_views |-> round(erv, 3),
                       engagement_rate_subscribers |-> round(ers, 3),
                       view_rate |-> round(vr, 2),
                       like_rate |-> round(lr, 3),
                       comment_rate |-> round(cr, 3),
                       duration_seconds |-> ds.val,
                       views_per_minute |-> round(vpm, 2)]]

\* main.py line 444: int(channel_info.get('subscriber_count', 0)) if
\* channel_info.get('subscriber_count') else 0
MainSubscriberCount(info) ==
    IF Truthy(DictGet(info, "subscriber_count", None))
    THEN IntStr(DictGet(info, "subscriber_count", 0))
    ELSE Ok(0)

\* a call of parse_duration, of calculate_engagement_metrics or of
\* get_multiple_channels_videos
TwinsInit == PdInit \/ Init \/ ChannelsInit

TwinsNext == PdNext \/ ChannelsNext

SpecTwins == TwinsInit /\ [][TwinsNext]_vars

(***************************************************************************)
(* The report renderers (src/src/exporters.py), called one after the other *)
(* on the list get_multiple_channels_videos returned.  Each operation on   *)
(* a list or a dict yields what it leaves in its operand and what it       *)
(* returns; published_at is modelled by <<year, month, day>>, which the    *)
(* ISO timestamps order as their strs do.                                  *)
(***************************************************************************)
\* the key of a timestamp in a sort
DateKey(p) == IF p = <<>> THEN 0 ELSE p[1] * 10000 + p[2] * 100 + p[3]

\* [x.get(field, 0) for x in l]
KeysOf(h, l, field) == [j \in 1..Len(l) |-> DictGet(h[l[j]], field, 0)]

\* [x.get('published_at', '') for x in l]
DateKeysOf(h, l) ==
    [j \in 1..Len(l) |-> DateKey(DictGet(h[l[j]], "published_at", <<>>))]

\* the place of l[j] when l is sorted by keys, reverse=True: after the items
\* with a larger key and the items before it with an equal key
PlaceDescending(keys, j) ==
    1 + Cardinality({o \in 1..Len(keys) :
                        keys[o] > keys[j] \/ (keys[o] = keys[j] /\ o < j)})

Descending(l, keys) ==
    [p \in 1..Len(l) |->
        l[CHOOSE j \in 1..Len(l) : PlaceDescending(keys, j) = p]]

\* l.sort(key=..., reverse=True): the list itself is put in order
ListSort(l, keys) ==
    [list |-> Descending(l, keys), result |-> Descending(l, keys)]

\* sorted(l, key=..., reverse=True): a new list, l as it was
sorted(l, keys) == [list |-> l, result |-> Descending(l, keys)]

\* l[:n]
Slice(l, n) == SubSeq(l, 1, Min({Len(l), Max({n, 0})}))

\* d[key] = value
DictSetItem(d, key, value) == DictUpdate(d, key :> value)

\* the concatenation of a list of lists
RECURSIVE Flatten(_)
Flatten(ls) == IF ls = <<>> THEN <<>> ELSE Head(ls) \o Flatten(Tail(ls))

\* [h[r][field] for r in l]
Column(h, l, field) == [j \in 1..Len(l) |-> h[l[j]][field]]

\* the records a channel of the exported data may hold, by statistics
ExportStatistics ==
    << [view_count |-> 3, like_count |-> 1, comment_count |-> 0,
        duration |-> <<"P", "T", "7", "S">>, published_at |-> <<2024, 5, 1>>],
       [view_count |-> 3, like_count |-> 1, comment_count |-> 3,
        duration |-> PT0S, published_at |-> <<2024, 5, 3>>],
       [view_count |-> 0, like_count |-> 0, comment_count |-> 3,
        duration |-> <<"P", "T", "1", "M">>, published_at |-> <<2024, 5, 2>>] >>

ExportLists == {<<>>, <<1>>, <<1, 2>>, <<3, 1>>}

\* the k-th record of channel c as the orchestration leaves it: the fields
\* of get_channel_videos and get_videos_statistics, and the derived fields
ExportRecord(c, k, a) ==
    LET raw == DictUpdate(video_info(VideoId(ChannelById(c).channel_id, k)),
                          ExportStatistics[a])
    IN  DictUpdate(raw, DerivedFields(raw, 3).val)

ExportChannel(c) ==
    get_channel_info(ChannelById(c).channel_id, "items", <<"3">>).val

\* the lists of statistics of the channels of an exported data
ExportShapes ==
    UNION {[1..n -> ExportLists] : n \in 0..MaxChannels}

RECURSIVE RecordsBefore(_, _)
RecordsBefore(shape, c) ==
    IF c = 1 THEN 0 ELSE RecordsBefore(shape, c - 1) + Len(shape[c - 1])

ExportHeap(shape) ==
    Flatten([c \in 1..Len(shape) |->
                [k \in 1..Len(shape[c]) |-> ExportRecord(c, k, shape[c][k])]])

ExportData(shape) ==
    [c \in 1..Len(shape) |->
        [channel |-> ExportChannel(c),
         videos |-> [k \in 1..Len(shape[c]) |-> RecordsBefore(shape, c) + k]]]

\* what the exported data holds, by value
Snapshot(h, data) ==
    [data |-> data,
     records |-> [c \in 1..Len(data) |-> Deref(h, data[c].videos)]]

TopNs == {1, 15}

ExportInit ==
    /\ \E shape \in ExportShapes :
          /\ heap = ExportHeap(shape)
          /\ channels_data = ExportData(shape)
    /\ given = Snapshot(heap, channels_data)
    /\ files = <<>>
    /\ ex_calls = 0
    /\ videos = <<>>
    /\ subscriber_count = 0
    /\ enhanced_videos = <<>>
    /\ idx = 0
    /\ pc = "idle"
    /\ call_heap = <<>>
    /\ call_videos = <<>>
    /\ history = <<>>
    /\ PdIdle
    /\ ChIdle
    /\ VkIdle
    /\ TrIdle

\* channels_data with the list of each channel as an operation left it
WithLists(ops) ==
    [c \in 1..Len(channels_data) |->
        [channels_data[c] EXCEPT !.videos = ops[c].list]]

\* the file an exporter wrote, none when channels_data is empty
Written(name, lines) ==
    IF channels_data = <<>> THEN files
    ELSE Append(files, [name |-> name, lines |-> lines])

\* export_to_csv: a row per video
export_to_csv ==
    /\ ex_calls < MaxExports
    /\ ex_calls' = ex_calls + 1
    /\ files' = Written("csv",
          Flatten([c \in 1..Len(channels_data) |->
              [k \in 1..Len(channels_data[c].videos) |->
                  LET video == heap[channels_data[c].videos[k]]
                      info == channels_data[c].channel
                  IN  << info["title"],
                         DictGet(info, "subscriber_count", <<"N/A">>),
                         video["title"], video["published_at"], video["url"],
                         DictGet(video, "view_count", 0),
                         DictGet(video, "like_count", 0),
                         DictGet(video, "comment_count", 0),
                         DictGet(video, "duration_seconds", 0),
                         DictGet(video, "engagement_rate_views", 0),
                         DictGet(video, "engagement_rate_subscribers", 0),
                         DictGet(video, "view_rate", 0),
                         DictGet(video, "like_rate", 0),
                         DictGet(video, "comment_rate", 0),
                         DictGet(video, "views_per_minute", 0) >>]]))
    /\ UNCHANGED <<heap, channels_data, given>>
    /\ UNCHANGED <<videos, subscriber_count, enhanced_videos, idx, pc,
                   call_heap, call_videos, history>>
    /\ UNCHANGED <<pd_vars, ch_vars, vk_vars, tr_vars>>

\* export_channel_stats: per channel the number of videos and the three
\* lists of five
export_channel_stats ==
    /\ ex_calls < MaxExports
    /\ ex_calls' = ex_calls + 1
    /\ LET top_viewed == [c \in 1..Len(channels_data) |->
               sorted(channels_data[c].videos,
                      KeysOf(heap, channels_data[c].videos, "view_count"))]
           after_viewed == WithLists(top_viewed)
           top_engaged == [c \in 1..Len(channels_data) |->
               sorted(after_viewed[c].videos,
                      KeysOf(heap, after_viewed[c].videos,
                             "engagement_rate_views"))]
           after_engaged ==
               [c \in 1..Len(channels_data) |->
                   [after_viewed[c] EXCEPT !.videos = top_engaged[c].list]]
           recent_videos == [c \in 1..Len(channels_data) |->
               sorted(after_engaged[c].videos,
                      DateKeysOf(heap, after_engaged[c].videos))]
       IN  /\ channels_data' =
                 [c \in 1..Len(channels_data) |->
                     [after_engaged[c] EXCEPT !.videos = recent_videos[c].list]]
           /\ files' = Written("stats",
                 [c \in 1..Len(channels_data) |->
                     [video_count |-> Len(channels_data[c].videos),
                      top_viewed |->
                          Column(heap, Slice(top_viewed[c].result, 5), "title"),
                      top_engaged |->
                          Column(heap, Slice(top_engaged[c].result, 5), "title"),
                      recent_videos |->
                          Column(heap, Slice(recent_videos[c].result, 5),
                                 "title")]])
    /\ UNCHANGED <<heap, given>>
    /\ UNCHANGED <<videos, subscriber_count, enhanced_videos, idx, pc,
                   call_heap, call_videos, history>>
    /\ UNCHANGED <<pd_vars, ch_vars, vk_vars, tr_vars>>

\* export_engagement_trends_report: all_videos, then a copy of every record
\* with its channel_name, and the two lists of the best of the copies
export_engagement_trends_report ==
    /\ ex_calls < MaxExports
    /\ ex_calls' = ex_calls + 1
    /\ LET all_videos ==
               Flatten([c \in 1..Len(channels_data) |-> channels_data[c].videos])
           names == Flatten([c \in 1..Len(channels_data) |->
                       [k \in 1..Len(channels_data[c].videos) |->
                           channels_data[c].channel["title"]]])
           copies == [j \in 1..Len(all_videos) |->
                         DictSetItem(DictCopy(heap, all_videos[j]).heap[Len(heap) + 1],
                                     "channel_name", names[j])]
           with_copies == heap \o copies
           all_videos_with_channel ==
               [j \in 1..Len(all_videos) |-> Len(heap) + j]
           top_engagement ==
               sorted(all_videos_with_channel,
                      KeysOf(with_copies, all_videos_with_channel,
                             "engagement_rate_views"))
           viral_videos ==
               sorted(top_engagement.list,
                      KeysOf(with_copies, top_engagement.list, "view_rate"))
       IN  IF channels_data = <<>>
           THEN UNCHANGED <<heap, files>>
           ELSE IF all_videos = <<>>
           THEN /\ files' = Written("trends", <<"No videos found for analysis.">>)
                /\ UNCHANGED heap
           ELSE /\ heap' = with_copies
                /\ files' = Written("trends",
                      [total_videos |-> Len(all_videos),
                       top_engagement |->
                           [j \in 1..Len(Slice(top_engagement.result, 10)) |->
                               <<with_copies[top_engagement.result[j]]["channel_name"],
                                 with_copies[top_engagement.result[j]]["title"]>>],
                       viral_videos |->
                           [j \in 1..Len(Slice(viral_videos.result, 5)) |->
                               <<with_copies[viral_videos.result[j]]["channel_name"],
                                 with_copies[viral_videos.result[j]]["title"]>>]])
    /\ UNCHANGED <<channels_data, given>>
    /\ UNCHANGED <<videos, subscriber_count, enhanced_videos, idx, pc,
                   call_heap, call_videos, history>>
    /\ UNCHANGED <<pd_vars, ch_vars, vk_vars, tr_vars>>

\* export_best_videos_report: the urls of the top_n of each channel
export_best_videos_report ==
    /\ ex_calls < MaxExports
    /\ ex_calls' = ex_calls + 1
    /\ \E top_n \in TopNs :
          LET best_videos == [c \in 1..Len(channels_data) |->
                  sorted(channels_data[c].videos,
                         KeysOf(heap, channels_data[c].videos,
                                "engagement_rate_views"))]
          IN  /\ channels_data' = WithLists(best_videos)
              /\ files' = Written("best",
                    Flatten([c \in 1..Len(channels_data) |->
                        Column(heap, Slice(best_videos[c].result, top_n), "url")]))
    /\ UNCHANGED <<heap, given>>
    /\ UNCHANGED <<videos, subscriber_count, enhanced_videos, idx, pc,
                   call_heap, call_videos, history>>
    /\ UNCHANGED <<pd_vars, ch_vars, vk_vars, tr_vars>>

\* export_latest_videos_report: the urls of the latest top_n of each channel
export_latest_videos_report ==
    /\ ex_calls < MaxExports
    /\ ex_calls' = ex_calls + 1
    /\ \E top_n \in TopNs :
          LET latest_videos == [c \in 1..Len(channels_data) |->
                  sorted(channels_data[c].videos,
                         DateKeysOf(heap, channels_data[c].videos))]
          IN  /\ channels_data' = WithLists(latest_videos)
              /\ files' = Written("latest",
                    Flatten([c \in 1..Len(channels_data) |->
                        Column(heap, Slice(latest_videos[c].result, top_n), "url")]))
    /\ UNCHANGED <<heap, given>>
    /\ UNCHANGED <<videos, subscriber_count, enhanced_videos, idx, pc,
                   call_heap, call_videos, history>>
    /\ UNCHANGED <<pd_vars, ch_vars, vk_vars, tr_vars>>

\* export_output_readme: the totals and a line per channel; written for an
\* empty channels_data too
export_output_readme ==
    /\ ex_calls < MaxExports
    /\ ex_calls' = ex_calls + 1
    /\ files' = Append(files,
          [name |-> "readme",
           lines |-> [total_channels |-> Len(channels_data),
                      total_videos |->
                          Len(Flatten([c \in 1..Len(channels_data) |->
                                          channels_data[c].videos])),
                      channels |-> [c \in 1..Len(channels_data) |->
                          <<channels_data[c].channel["title"],
                            Len(channels_data[c].videos)>>]]])
    /\ UNCHANGED <<heap, channels_data, given>>
    /\ UNCHANGED <<videos, subscriber_count, enhanced_videos, idx, pc,
                   call_heap, call_videos, history>>
    /\ UNCHANGED <<pd_vars, ch_vars, vk_vars, tr_vars>>

ExportNext ==
    \/ export_to_csv \/ export_channel_stats \/ export_engagement_trends_report
    \/ export_best_videos_report \/ export_latest_videos_report
    \/ export_output_readme

SpecExport == ExportInit /\ [][ExportNext]_vars

(***************************************************************************)
(* The compact duration notation, stated apart from the matcher:           *)
(* PT [digits H] [digits M] [digits S].                                    *)
(***************************************************************************)
IsComponent(x, unit) ==
    \/ x = <<>>
    \/ /\ Len(x) >= 2
       /\ x[Len(x)] = unit
       /\ \A i \in 1..(Len(x) - 1) : x[i] \in Digit

RECURSIVE DecimalOf(_)
DecimalOf(ds) ==
    IF ds = <<>> THEN 0
    ELSE DigitVal(Head(ds)) * Pow10(Len(ds) - 1) + DecimalOf(Tail(ds))

ComponentValue(x) == IF x = <<>> THEN 0 ELSE DecimalOf(SubSeq(x, 1, Len(x) - 1))

StartsWithPT(s) == Len(s) >= 2 /\ s[1] = "P" /\ s[2] = "T"

\* s is PT, then s[3..i] the hours, s[i+1..j] the minutes, s[j+1..] the seconds
SplitsAs(s, i, j) ==
    /\ StartsWithPT(s)
    /\ 2 <= i /\ i <= j /\ j <= Len(s)
    /\ IsComponent(SubSeq(s, 3, i), "H")
    /\ IsComponent(SubSeq(s, i + 1, j), "M")
    /\ IsComponent(SubSeq(s, j + 1, Len(s)), "S")

SplitValue(s, i, j) ==
    ComponentValue(SubSeq(s, 3, i)) * 3600
        + ComponentValue(SubSeq(s, i + 1, j)) * 60
        + ComponentValue(SubSeq(s, j + 1, Len(s)))

HoursEnd(s) ==
    {i \in 2..Len(s) : IsComponent(SubSeq(s, 3, i), "H")}

MinutesEnd(s, i) ==
    {j \in i..Len(s) : /\ IsComponent(SubSeq(s, i + 1, j), "M")
                       /\ IsComponent(SubSeq(s, j + 1, Len(s)), "S")}

IsDuration(s) ==
    StartsWithPT(s) /\ \E i \in HoursEnd(s) : MinutesEnd(s, i) # {}

DurationValue(s) ==
    LET i == CHOOSE i \in HoursEnd(s) : MinutesEnd(s, i) # {}
        j == CHOOSE j \in MinutesEnd(s, i) : TRUE
    IN  SplitValue(s, i, j)

Prefix(s, n) == SubSeq(s, 1, n)

\* the lengths of the prefixes of s that are durations
DurationPrefixes(s) == {n \in 0..Len(s) : IsDuration(Prefix(s, n))}

(***************************************************************************)
(* C1 (as amended). For every string of the form PT [h H] [m M] [s S],     *)
(* each component a non-negative integer literal and each possibly absent, *)
(* parse_duration returns h*3600 + m*60 + s, an absent component counting  *)
(* 0; PT1H2M10S gives 3730, PT5M 300, PT45S 45, PT0S and bare PT 0.        *)
(***************************************************************************)
ParsesAsSum ==
    StartsWithPT(duration) =>
        \A i, j \in 2..Len(duration) :
            SplitsAs(duration, i, j) =>
                pd_pc = "done" /\ pd_result = SplitValue(duration, i, j)

C1_ParseWellFormed ==
    pd_pc \in {"done", "raised"} =>
        /\ ParsesAsSum
        /\ duration = <<"P", "T", "1", "H", "2", "M", "1", "0", "S">> => pd_result = 3730
        /\ duration = <<"P", "T", "5", "M">> => pd_result = 300
        /\ duration = <<"P", "T", "4", "5", "S">> => pd_result = 45
        /\ duration = <<"P", "T", "0", "S">> => pd_result = 0
        /\ duration = <<"P", "T">> => pd_result = 0

\* all three components present, on the form spec.md section 8 lists first
C1_Witness ==
    /\ pd_pc = "done"
    /\ duration = <<"P", "T", "1", "H", "2", "M", "1", "0", "S">>
    /\ \E i, j \in 2..Len(duration) :
          /\ SplitsAs(duration, i, j)
          /\ 2 < i /\ i < j /\ j < Len(duration)
    /\ pd_result = 3730

\* C1 as stated: the same, with PT1H2M10S giving 3732
C1_AsStated ==
    pd_pc \in {"done", "raised"} =>
        /\ ParsesAsSum
        /\ duration = <<"P", "T", "1", "H", "2", "M", "1", "0", "S">> => pd_result = 3732
        /\ duration = <<"P", "T", "5", "M">> => pd_result = 300
        /\ duration = <<"P", "T", "4", "5", "S">> => pd_result = 45
        /\ duration = <<"P", "T", "0", "S">> => pd_result = 0
        /\ duration = <<"P", "T">> => pd_result = 0

C3_ParsePrefixOnly ==
    pd_pc = "done" =>
        /\ StartsWithPT(duration) =>
              \E n \in 2..Len(duration) :
                  /\ IsDuration(Prefix(duration, n))
                  /\ \A k \in (n + 1)..Len(duration) : ~IsDuration(Prefix(duration, k))
                  /\ pd_result = DurationValue(Prefix(duration, n))
        /\ ~StartsWithPT(duration) =>
              DurationPrefixes(duration) = {} /\ pd_result = 0

\* a duration followed by a suffix that is not part of it
C3_Witness ==
    /\ pd_pc = "done"
    /\ StartsWithPT(duration)
    /\ Max(DurationPrefixes(duration)) < Len(duration)
    /\ Max(DurationPrefixes(duration)) > 2
    /\ pd_result > 0

(***************************************************************************)
(* The records of a call: the i-th input as it was when the call was made, *)
(* and the i-th record of the list being returned.                         *)
(***************************************************************************)
Inputs == 1..Len(call_videos)
Outputs == 1..Len(enhanced_videos)
Input(i) == call_heap[call_videos[i]]
Enriched(i) == heap[enhanced_videos[i]]

IdentityKeys == {"id", "title", "published_at", "url"}
CounterKeys == {"view_count", "like_count", "comment_count"}
RawKeys == IdentityKeys \cup CounterKeys \cup {"duration"}
DerivedKeys ==
    {"engagement_rate_views", "engagement_rate_subscribers", "view_rate",
     "like_rate", "comment_rate", "duration_seconds", "views_per_minute"}

Restrict(d, keys) == [k \in DOMAIN d \cap keys |-> d[k]]

\* the record with every missing raw field set to its default
Defaulted(video) ==
    video @@ [view_count |-> 0, like_count |-> 0, comment_count |-> 0,
              duration |-> PT0S]

(***************************************************************************)
(* C4. A record with view_count == 0 is enriched with                      *)
(* engagement_rate_views, like_rate and comment_rate all 0, whatever its   *)
(* like_count and comment_count and the subscriber_count are, and the loop *)
(* raises no division error on it.                                         *)
(***************************************************************************)
C4_ZeroViewGuard ==
    /\ \A i \in Outputs :
          DictGet(Input(i), "view_count", 0) = 0 =>
              /\ Enriched(i)["engagement_rate_views"] = 0
              /\ Enriched(i)["like_rate"] = 0
              /\ Enriched(i)["comment_rate"] = 0
    /\ pc = "raised" => DictGet(Input(idx), "view_count", 0) # 0

C4_Witness ==
    /\ pc = "done"
    /\ \E i \in Outputs :
          /\ "view_count" \in DOMAIN Input(i) /\ Input(i)["view_count"] = 0
          /\ DictGet(Input(i), "like_count", 0) > 0
          /\ DictGet(Input(i), "comment_count", 0) > 0
          /\ Enriched(i)["engagement_rate_subscribers"] > 0

(***************************************************************************)
(* C5. With subscriber_count == 0 every enriched record has                *)
(* engagement_rate_subscribers == 0 and view_rate == 0, whatever its view, *)
(* like and comment counts are.                                            *)
(***************************************************************************)
C5_ZeroSubscriberGuard ==
    subscriber_count = 0 =>
        \A i \in Outputs :
            /\ Enriched(i)["engagement_rate_subscribers"] = 0
            /\ Enriched(i)["view_rate"] = 0

C5_Witness ==
    /\ pc = "done"
    /\ subscriber_count = 0
    /\ \E i \in Outputs :
          /\ DictGet(Input(i), "view_count", 0) > 0
          /\ DictGet(Input(i), "like_count", 0) > 0
          /\ Enriched(i)["engagement_rate_views"] > 0

(***************************************************************************)
(* C6. In every enriched record duration_seconds == 0 implies              *)
(* views_per_minute == 0, whatever the view_count is: for a malformed or   *)
(* absent duration, for PT0S and for bare PT.                              *)
(***************************************************************************)
C6_ZeroDurationGuard ==
    \A i \in Outputs :
        Enriched(i)["duration_seconds"] = 0 => Enriched(i)["views_per_minute"] = 0

C6_Witness ==
    /\ pc = "done"
    /\ \E i \in Outputs :
          /\ "duration" \in DOMAIN Input(i) /\ Input(i)["duration"] = <<"x">>
          /\ DictGet(Input(i), "view_count", 0) > 0
          /\ Enriched(i)["duration_seconds"] = 0

(***************************************************************************)
(* C7. For every list videos and every non-negative subscriber_count the   *)
(* call returns a list of the same length whose i-th element is the        *)
(* enrichment of videos[i], with its id, title, published_at, url and raw  *)
(* counters: no record is lost, duplicated or reordered.                   *)
(***************************************************************************)
C7_OrderCardinality ==
    subscriber_count >= 0 =>
        /\ pc = "loop" => Len(enhanced_videos) = idx - 1
        /\ pc = "done" => Len(enhanced_videos) = Len(call_videos)
        /\ \A i \in Outputs :
              /\ i \in Inputs
              /\ Restrict(Enriched(i), IdentityKeys \cup CounterKeys)
                    = Restrict(Input(i), IdentityKeys \cup CounterKeys)
              /\ Restrict(Enriched(i), DerivedKeys)
                    = DerivedFields(Input(i), subscriber_count).val

C7_Witness ==
    /\ pc = "done"
    /\ subscriber_count > 0
    /\ Len(call_videos) >= 2
    /\ Len(enhanced_videos) = Len(call_videos)
    /\ Enriched(1)["id"] # Enriched(2)["id"]
    /\ Enriched(1)["view_rate"] # Enriched(2)["view_rate"]

(***************************************************************************)
(* C8. The call is pure with respect to its inputs: the input list and     *)
(* every input record keep exactly the keys and values they had when the   *)
(* call was made (no derived field is added to an input record), and the   *)
(* result is a new list of new records.                                    *)
(***************************************************************************)
C8_InputsUntouched ==
    /\ videos = call_videos
    /\ Len(heap) >= Len(call_heap)
    /\ \A r \in 1..Len(call_heap) : heap[r] = call_heap[r]
    /\ \A i \in Outputs :
          /\ enhanced_videos[i] \notin 1..Len(call_heap)
          /\ \A j \in Outputs : enhanced_videos[i] = enhanced_videos[j] => i = j

C8_Witness ==
    /\ pc = "done"
    /\ Len(call_videos) >= 2
    /\ \A i \in Outputs :
          /\ DerivedKeys \subseteq DOMAIN Enriched(i)
          /\ DerivedKeys \cap DOMAIN heap[videos[i]] = {}

(***************************************************************************)
(* C9. Enrichment is additive: every key of an input record (id, title,    *)
(* published_at, url, view_count, like_count, comment_count, duration) is  *)
(* in the corresponding output record with the same value, and the output  *)
(* record also carries the seven derived fields.                           *)
(***************************************************************************)
C9_Additive ==
    \A i \in Outputs :
        /\ \A k \in DOMAIN Input(i) :
              k \in DOMAIN Enriched(i) /\ Enriched(i)[k] = Input(i)[k]
        /\ DerivedKeys \subseteq DOMAIN Enriched(i)

C9_Witness ==
    /\ pc = "done"
    /\ \E i \in Outputs :
          /\ DOMAIN Input(i) = RawKeys
          /\ DOMAIN Enriched(i) = RawKeys \cup DerivedKeys
          /\ Input(i)["view_count"] > 0

Abs(x) == IF x < 0 THEN -x ELSE x

\* x, in units of 10^-k, is n / d rounded to k decimals: no multiple of
\* 10^-k is nearer to n / d (either neighbour of a tie qualifies)
IsRounded(x, n, d, k) == 2 * Abs(x * d - n * Pow10(k)) <= Abs(d)

ViewCountOf(i) == DictGet(Input(i), "view_count", 0)
LikeCountOf(i) == DictGet(Input(i), "like_count", 0)
CommentCountOf(i) == DictGet(Input(i), "comment_count", 0)

\* every metric of the i-th output is its formula, rounded
FormulasHold(i) ==
    LET v == ViewCountOf(i)
        l == LikeCountOf(i)
        c == CommentCountOf(i)
        e == Enriched(i)
    IN  /\ IsRounded(e["engagement_rate_views"], (l + c) * 100, v, 3)
        /\ IsRounded(e["engagement_rate_subscribers"], (l + c) * 100,
                     subscriber_count, 3)
        /\ IsRounded(e["view_rate"], v * 100, subscriber_count, 2)
        /\ IsRounded(e["like_rate"], l * 100, v, 3)
        /\ IsRounded(e["comment_rate"], c * 100, v, 3)
        /\ IsRounded(e["views_per_minute"], v * 60, e["duration_seconds"], 2)

C12_GuardsIndependent ==
    \A i \in Outputs :
        (ViewCountOf(i) = 0 /\ subscriber_count > 0) =>
            /\ Enriched(i)["engagement_rate_views"] = 0
            /\ Enriched(i)["like_rate"] = 0
            /\ Enriched(i)["comment_rate"] = 0
            /\ IsRounded(Enriched(i)["engagement_rate_subscribers"],
                         (LikeCountOf(i) + CommentCountOf(i)) * 100,
                         subscriber_count, 3)

C12_Witness ==
    /\ pc = "done"
    /\ subscriber_count = 500
    /\ \E i \in Outputs :
          /\ Input(i) = ScenarioZeroViews
          /\ Enriched(i)["engagement_rate_views"] = 0
          /\ Enriched(i)["engagement_rate_subscribers"] = 12000

(***************************************************************************)
(* C13. In every enriched record duration_seconds is a non-negative        *)
(* integer that depends on the record's duration field only: it is the     *)
(* value of the longest prefix of that field that is a duration, so two    *)
(* records with the same duration get the same duration_seconds whatever   *)
(* their counters and the subscriber_count; an unparseable or absent       *)
(* duration gives 0.                                                       *)
(***************************************************************************)
\* what the notation says a duration field is worth
WorthOf(s) ==
    IF DurationPrefixes(s) = {} THEN 0
    ELSE DurationValue(Prefix(s, Max(DurationPrefixes(s))))

C13_DurationSecondsFromDuration ==
    \A i \in Outputs :
        /\ Enriched(i)["duration_seconds"] \in Nat
        /\ "duration" \notin DOMAIN Input(i) => Enriched(i)["duration_seconds"] = 0
        /\ "duration" \in DOMAIN Input(i) =>
              /\ Enriched(i)["duration_seconds"] = WorthOf(Input(i)["duration"])
              /\ ~StartsWithPT(Input(i)["duration"]) =>
                    Enriched(i)["duration_seconds"] = 0
        /\ \A j \in Outputs :
              Restrict(Input(i), {"duration"}) = Restrict(Input(j), {"duration"})
                  => Enriched(i)["duration_seconds"] = Enriched(j)["duration_seconds"]

\* two records of one call with the same duration and different counters
C13_Witness ==
    /\ pc = "done"
    /\ Len(enhanced_videos) >= 2
    /\ Input(1)["duration"] = Input(2)["duration"]
    /\ Input(1)["view_count"] # Input(2)["view_count"]
    /\ Enriched(1)["duration_seconds"] = 7
    /\ Enriched(2)["duration_seconds"] = 7

(***************************************************************************)
(* C14 (as amended). Negative like and comment counts are not              *)
(* special-cased: for a record with a negative counter, or a negative      *)
(* subscriber_count, every derived metric whose denominator is positive is *)
(* its section-4.2 formula applied to those values, and a denominator that *)
(* is 0 or negative forces the metric to 0.                                *)
(***************************************************************************)
HasNegative(i) ==
    \/ ViewCountOf(i) < 0 \/ LikeCountOf(i) < 0 \/ CommentCountOf(i) < 0
    \/ subscriber_count < 0

\* x is the formula n / d when the denominator passes the guard, else 0
GuardedPositive(x, n, d, k) == IF d > 0 THEN IsRounded(x, n, d, k) ELSE x = 0
GuardedNonZero(x, n, d, k) == IF d # 0 THEN IsRounded(x, n, d, k) ELSE x = 0

C14_NegativeCounters ==
    \A i \in Outputs :
        HasNegative(i) =>
            LET v == ViewCountOf(i)
                l == LikeCountOf(i)
                c == CommentCountOf(i)
                e == Enriched(i)
            IN  /\ GuardedPositive(e["engagement_rate_views"], (l + c) * 100, v, 3)
                /\ GuardedPositive(e["engagement_rate_subscribers"], (l + c) * 100,
                                   subscriber_count, 3)
                /\ GuardedPositive(e["view_rate"], v * 100, subscriber_count, 2)
                /\ GuardedPositive(e["like_rate"], l * 100, v, 3)
                /\ GuardedPositive(e["comment_rate"], c * 100, v, 3)
                /\ GuardedPositive(e["views_per_minute"], v * 60,
                                   e["duration_seconds"], 2)

\* a negative numerator goes through the formula, a negative denominator
\* gives 0
C14_Witness ==
    /\ pc = "done"
    /\ subscriber_count = 3
    /\ \E i \in Outputs :
          /\ ViewCountOf(i) = -1 /\ LikeCountOf(i) = -1 /\ CommentCountOf(i) = 0
          /\ Enriched(i)["engagement_rate_subscribers"] = -33333
          /\ Enriched(i)["engagement_rate_views"] = 0
          /\ Enriched(i)["like_rate"] = 0

\* C14 as stated: only a denominator equal to 0 forces the metric to 0
C14_AsStated ==
    \A i \in Outputs :
        HasNegative(i) =>
            LET v == ViewCountOf(i)
                l == LikeCountOf(i)
                c == CommentCountOf(i)
                e == Enriched(i)
            IN  /\ GuardedNonZero(e["engagement_rate_views"], (l + c) * 100, v, 3)
                /\ GuardedNonZero(e["engagement_rate_subscribers"], (l + c) * 100,
                                  subscriber_count, 3)
                /\ GuardedNonZero(e["view_rate"], v * 100, subscriber_count, 2)
                /\ GuardedNonZero(e["like_rate"], l * 100, v, 3)
                /\ GuardedNonZero(e["comment_rate"], c * 100, v, 3)
                /\ GuardedNonZero(e["views_per_minute"], v * 60,
                                  e["duration_seconds"], 2)

(***************************************************************************)
(* C15. calculate_engagement_metrics is stateless and deterministic: in    *)
(* any sequence of calls the result of a call depends on that call's       *)
(* videos and subscriber_count only, so two calls with equal arguments     *)
(* return equal results whatever calls were made before or between them.   *)
(***************************************************************************)
C15_Stateless ==
    \A a, b \in 1..Len(history) :
        ( /\ history[a].videos = history[b].videos
          /\ history[a].subscriber_count = history[b].subscriber_count )
        => history[a].result = history[b].result

\* two calls with equal arguments and another call between them
C15_Witness ==
    /\ Len(history) >= 3
    /\ history[1].videos = history[3].videos
    /\ history[1].subscriber_count = history[3].subscriber_count
    /\ history[2].videos # history[1].videos
    /\ Len(history[2].result) > 0
    /\ Len(history[3].result) = 2

(***************************************************************************)
(* The orchestration's runs, read back from their history.                 *)
(***************************************************************************)
\* the calls of the enrichment made for channel c
EnrichCalls(c) == {k \in 1..Len(enrich_log) : enrich_log[k].channel = c}

\* what get_channel_videos returned for channel c
FetchedFor(c) == {k \in 1..Len(fetched) : fetched[k].channel = c}

\* a subscriber count that is known: a str of decimal digits
IsCount(raw) ==
    /\ raw # None
    /\ raw # <<>>
    /\ \A p \in 1..Len(raw) : raw[p] \in Digit

\* the subscriber count of a channel, 0 when it is unknown or unparseable
SubscribersOrZero(info) ==
    IF "subscriber_count" \in DOMAIN info /\ IsCount(info["subscriber_count"])
    THEN DecimalOf(info["subscriber_count"])
    ELSE 0

\* record is the enrichment of raw: raw's fields kept, the derived fields added
EnrichmentOf(record, raw) ==
    /\ DOMAIN raw \cap DerivedKeys = {}
    /\ DOMAIN record = DOMAIN raw \cup DerivedKeys
    /\ Restrict(record, DOMAIN raw) = raw

(***************************************************************************)
(* C16. In get_multiple_channels_videos the enrichment is invoked at most  *)
(* once for every channel of channel_list, only after that channel's       *)
(* statistics fetch has completed, with that channel's own video list and  *)
(* subscriber count; every record of the returned data has been enriched   *)
(* exactly once, and is never enriched again or removed afterwards.        *)
(***************************************************************************)
C16_EnrichedOncePerChannel ==
    /\ \A c \in 1..Len(channel_list) : Cardinality(EnrichCalls(c)) <= 1
    /\ \A k \in 1..Len(enrich_log) :
          LET e == enrich_log[k]
          IN  /\ e.channel \in e.fetched
              /\ \E f \in FetchedFor(e.channel) :
                    /\ e.videos = fetched[f].videos
                    /\ e.subscriber_count =
                          SubscribersOrZero(fetched[f].channel_info)
    /\ Len(all_channels_data) = Len(stored)
    /\ \A k \in 1..Len(stored) :
          /\ all_channels_data[k].channel = stored[k].channel
          /\ Deref(heap, all_channels_data[k].videos) = stored[k].videos
          /\ Cardinality(EnrichCalls(stored[k].index)) = 1
          /\ \E f \in FetchedFor(stored[k].index) :
                /\ Len(stored[k].videos) = Len(fetched[f].records)
                /\ \A j \in 1..Len(stored[k].videos) :
                      EnrichmentOf(stored[k].videos[j], fetched[f].records[j])

\* two channels returned, each with a video, with different subscriber counts
C16_Witness ==
    /\ ch_pc = "returned"
    /\ Len(all_channels_data) = 2
    /\ Len(all_channels_data[1].videos) > 0
    /\ Len(all_channels_data[2].videos) > 0
    /\ enrich_log[1].subscriber_count # enrich_log[2].subscriber_count

(***************************************************************************)
(* C18. Every record get_videos_statistics returns for a non-empty input   *)
(* carries view_count, like_count and comment_count as integers and        *)
(* duration as a string: taken from the API item when the video id is in   *)
(* the response, with 0 for a missing counter and "PT0S" for a missing     *)
(* duration, and 0, 0, 0, "PT0S" when the id is absent from the response;  *)
(* so every record handed to the enrichment has all four raw fields.       *)
(***************************************************************************)
\* the counter of an API item, 0 when the item has none
ItemCounter(answer, key) ==
    IF /\ answer.present
       /\ "statistics" \in DOMAIN answer.item
       /\ key \in DOMAIN answer.item["statistics"]
    THEN DecimalOf(answer.item["statistics"][key])
    ELSE 0

ItemDuration(answer) ==
    IF /\ answer.present
       /\ "contentDetails" \in DOMAIN answer.item
       /\ "duration" \in DOMAIN answer.item["contentDetails"]
    THEN answer.item["contentDetails"]["duration"]
    ELSE PT0S

IsStr(x) == x = <<>> \/ (x # None /\ DOMAIN x = 1..Len(x))

CarriesStatistics(record, answer) ==
    /\ DOMAIN record = RawKeys
    /\ record.view_count \in Int
    /\ record.like_count \in Int
    /\ record.comment_count \in Int
    /\ IsStr(record.duration)
    /\ record.view_count = ItemCounter(answer, "viewCount")
    /\ record.like_count = ItemCounter(answer, "likeCount")
    /\ record.comment_count = ItemCounter(answer, "commentCount")
    /\ record.duration = ItemDuration(answer)

\* the batches of a list of n records
Batches(n) == 0..((n - 1) \div YOUTUBE_API_BATCH_SIZE)

C18_StatisticsFields ==
    /\ \A k \in 1..Len(fetched) :
          \A b \in Batches(Len(fetched[k].records)) :
              \E offset \in api.stats :
                  \A j \in 1..Len(fetched[k].records) :
                      (j - 1) \div YOUTUBE_API_BATCH_SIZE = b
                      => CarriesStatistics(fetched[k].records[j],
                             StatsAnswer(fetched[k].records[j].id, offset))
    /\ pc # "idle" =>
          \A j \in Inputs : RawKeys \subseteq DOMAIN Input(j)

\* handed to the enrichment: a record whose id was absent from the response,
\* and a record whose item had a view count and a duration only
C18_Witness ==
    /\ ch_pc = "enrich"
    /\ Len(call_videos) = 2
    /\ Restrict(Input(1), CounterKeys \cup {"duration"}) =
          [view_count |-> 0, like_count |-> 0, comment_count |-> 0,
           duration |-> PT0S]
    /\ Restrict(Input(2), CounterKeys \cup {"duration"}) =
          [view_count |-> 3, like_count |-> 0, comment_count |-> 0,
           duration |-> <<"P", "T", "1", "M">>]

(***************************************************************************)
(* C19. The orchestration hands the enrichment an integer subscriber_count *)
(* that is 0 whenever the channel's subscriber count is unknown (absent,   *)
(* None, empty) or unparseable as an integer; an unparseable subscriber    *)
(* count does not keep the channel's videos from being enriched and        *)
(* returned.                                                               *)
(***************************************************************************)
C19_AsStated ==
    /\ \A k \in 1..Len(enrich_log) :
          /\ enrich_log[k].subscriber_count \in Int
          /\ \E f \in FetchedFor(enrich_log[k].channel) :
                enrich_log[k].subscriber_count =
                    SubscribersOrZero(fetched[f].channel_info)
    /\ \A f \in 1..Len(fetched) :
          fetched[f].channel < cur =>
              /\ EnrichCalls(fetched[f].channel) # {}
              /\ \E k \in 1..Len(stored) : stored[k].index = fetched[f].channel

\* what does hold: an unknown subscriber count is handed over as 0
C19_UnknownIsZero ==
    \A k \in 1..Len(enrich_log) :
        \E f \in FetchedFor(enrich_log[k].channel) :
            ~IsCount(fetched[f].channel_info["subscriber_count"])
            => enrich_log[k].subscriber_count = 0

(***************************************************************************)
(* C20. get_channel_videos returns at most max_results videos: for every   *)
(* max_results and every sequence of API pages none of which holds more    *)
(* items than the maxResults asked for, the list returned is no longer     *)
(* than max_results (than 0, for a negative max_results), each request     *)
(* asks for min(50, max_results - videos collected so far) items, and for  *)
(* max_results <= 0 no playlist page is requested.                         *)
(***************************************************************************)
C20_AtMostMaxResults ==
    /\ ~overfull => Len(gcv_videos) <= Max({max_results, 0})
    /\ (ch_pc = "gcv_return" /\ ~overfull) =>
          Len(videos_with_stats) <= Max({max_results, 0})
    /\ "playlistItems" \in requested =>
          page_asked.maxResults =
              Min({50, max_results - page_asked.collected})
    /\ max_results <= 0 => "playlistItems" \notin requested

\* 51 videos asked for and returned: a page of 50, then a request for 1
C20_Witness ==
    /\ ch_pc = "gcv_return"
    /\ ~overfull
    /\ max_results = 51
    /\ Len(videos_with_stats) = 51
    /\ page_asked = [maxResults |-> 1, collected |-> 50]

\* the claim as stated: the list returned is no longer than max_results
C20_AsStated ==
    (ch_pc = "gcv_return" /\ ~overfull) =>
        Len(videos_with_stats) <= max_results

(***************************************************************************)
(* C17. Enriched records are read-only for the report renderers: after any *)
(* sequence of calls of export_to_csv, export_channel_stats,               *)
(* export_engagement_trends_report, export_best_videos_report,             *)
(* export_latest_videos_report and export_output_readme, channels_data and *)
(* every video record in it have the same keys, values and order as        *)
(* before; the channel_name the trends report adds goes on a copy.         *)
(***************************************************************************)
C17_ExportersReadOnly ==
    /\ channels_data = given.data
    /\ Snapshot(heap, channels_data) = given
    /\ \A c \in 1..Len(channels_data) :
          \A k \in 1..Len(channels_data[c].videos) :
              "channel_name" \notin DOMAIN heap[channels_data[c].videos[k]]

\* after the trends report, which made its copies, the best videos report
\* put the second record of the first channel before the first
C17_Witness ==
    /\ Len(files) = 2
    /\ files[1].name = "trends"
    /\ files[2].name = "best"
    /\ Len(channels_data[1].videos) = 2
    /\ Len(files[2].lines) >= 2
    /\ files[2].lines[1] = heap[channels_data[1].videos[2]]["url"]
    /\ \E r \in DOMAIN heap : "channel_name" \in DOMAIN heap[r]

(***************************************************************************)
(* C30. parse_duration recognises only the time portion, in the fixed      *)
(* order H, M, S: a duration with a day component (P1DT2H) yields 0, PT    *)
(* not being at position 0, and of components written out of order after   *)
(* PT the first out-of-place one and all after it are dropped (PT5S3M      *)
(* yields 5, PT3M1H yields 180); in both cases without an error.           *)
(***************************************************************************)
UnitRank(u) == CASE u = "H" -> 1 [] u = "M" -> 2 [] u = "S" -> 3

\* the length of the first component of s: digits and a unit letter; 0 when
\* s does not start with one
FirstComponent(s) ==
    LET ends == {p \in 2..Len(s) :
                    /\ s[p] \in {"H", "M", "S"}
                    /\ \A q \in 1..(p - 1) : s[q] \in Digit}
    IN  IF ends = {} THEN 0 ELSE Min(ends)

\* s is made of components only, in any order
RECURSIVE IsComponents(_)
IsComponents(s) ==
    \/ s = <<>>
    \/ /\ FirstComponent(s) > 0
       /\ IsComponents(SubSeq(s, FirstComponent(s) + 1, Len(s)))

\* the seconds of the components of s up to the first whose unit does not
\* come after the unit before it
RECURSIVE InOrderValue(_, _)
InOrderValue(s, rank) ==
    IF s = <<>> THEN 0
    ELSE LET n == FirstComponent(s)
             unit == s[n]
         IN  IF UnitRank(unit) <= rank THEN 0
             ELSE DecimalOf(SubSeq(s, 1, n - 1))
                      * (CASE unit = "H" -> 3600 [] unit = "M" -> 60
                           [] unit = "S" -> 1)
                  + InOrderValue(SubSeq(s, n + 1, Len(s)), UnitRank(unit))

C30_FixedOrderOnly ==
    /\ pd_pc # "raised"
    /\ pd_pc = "done" =>
          /\ ~StartsWithPT(duration) => pd_result = 0
          /\ (StartsWithPT(duration)
                /\ IsComponents(SubSeq(duration, 3, Len(duration)))) =>
                pd_result = InOrderValue(SubSeq(duration, 3, Len(duration)), 0)
          /\ duration = <<"P", "1", "D", "T", "2", "H">> => pd_result = 0
          /\ duration = <<"P", "T", "5", "S", "3", "M">> => pd_result = 5
          /\ duration = <<"P", "T", "3", "M", "1", "H">> => pd_result = 180

\* seconds written before minutes: the minutes are dropped
C30_Witness ==
    /\ pd_pc = "done"
    /\ duration = <<"P", "T", "5", "S", "3", "M">>
    /\ pd_result = 5

(***************************************************************************)
(* C29. For records whose counters are all non-negative and a non-negative *)
(* subscriber_count, each of the seven derived fields is non-negative, and *)
(* like_rate and comment_rate are each at most engagement_rate_views.      *)
(***************************************************************************)
C29_NonNegativeAndBounded ==
    \A i \in Outputs :
        ~HasNegative(i) =>
            /\ \A k \in DerivedKeys : Enriched(i)[k] >= 0
            /\ Enriched(i)["like_rate"] <= Enriched(i)["engagement_rate_views"]
            /\ Enriched(i)["comment_rate"] <= Enriched(i)["engagement_rate_views"]

\* a record with views, likes and comments: both rates are below their sum
C29_Witness ==
    \E i \in Outputs :
        /\ ~HasNegative(i)
        /\ ViewCountOf(i) > 0 /\ LikeCountOf(i) > 0 /\ CommentCountOf(i) > 0
        /\ Enriched(i)["like_rate"] > 0
        /\ Enriched(i)["like_rate"] < Enriched(i)["engagement_rate_views"]
        /\ Enriched(i)["comment_rate"] < Enriched(i)["engagement_rate_views"]

(***************************************************************************)
(* C22. get_videos_statistics, given n videos, issues ceil(n / 50)         *)
(* requests, each for at most 50 ids taken from consecutive positions of   *)
(* the input, and returns exactly the n input records in their order, each *)
(* once; given an empty list it issues no request and returns the empty    *)
(* list.                                                                   *)
(***************************************************************************)
\* the ids of the input at the positions of the k-th batch
IdsOfBatch(k) ==
    LET first == (k - 1) * YOUTUBE_API_BATCH_SIZE + 1
        last == Min({k * YOUTUBE_API_BATCH_SIZE, Len(gcv_videos)})
    IN  [j \in 1..(last - first + 1) |-> heap[gcv_videos[first + j - 1]].id]

C22_BatchedInOrder ==
    /\ ch_pc \in {"batch", "gcv_return"} =>
          \A k \in 1..Len(stat_requests) :
              /\ Len(stat_requests[k]) \in 1..YOUTUBE_API_BATCH_SIZE
              /\ stat_requests[k] = IdsOfBatch(k)
    /\ ch_pc = "gcv_return" =>
          /\ Len(stat_requests) =
                (Len(gcv_videos) + YOUTUBE_API_BATCH_SIZE - 1)
                    \div YOUTUBE_API_BATCH_SIZE
          /\ videos_with_stats = gcv_videos
          /\ \A j, k \in 1..Len(videos_with_stats) :
                videos_with_stats[j] = videos_with_stats[k] => j = k
          /\ gcv_videos = <<>> => stat_requests = <<>> /\ videos_with_stats = <<>>

\* fifty-one videos: two requests, of fifty ids and of one
C22_Witness ==
    /\ ch_pc = "gcv_return"
    /\ Len(gcv_videos) > YOUTUBE_API_BATCH_SIZE
    /\ Len(stat_requests) = 2
    /\ Len(stat_requests[1]) = YOUTUBE_API_BATCH_SIZE
    /\ Len(videos_with_stats) = Len(gcv_videos)

(***************************************************************************)
(* C23. The pagination loop of get_channel_videos terminates for every     *)
(* max_results and whatever the service answers.  As stated: once the loop *)
(* is reached it is left.                                                  *)
(***************************************************************************)
C23_AsStated == (ch_pc = "pages") ~> (ch_pc # "pages")

\* C23, the rest of it: the loop is left only after a response without a
\* nextPageToken, with max_results records collected, or by an exception,
\* and no page is requested after a response without a nextPageToken
C23_StopsOnTokenOrCount ==
    /\ (ch_pc = "stats" /\ page_asked # NoPage) =>
          ~Truthy(next_page_token) \/ Len(gcv_videos) >= max_results
    /\ (ch_pc = "pages" /\ page_asked # NoPage) => Truthy(next_page_token)

(***************************************************************************)
(* C24. In get_multiple_channels_videos a failure on one channel is        *)
(* isolated: an exception raised for a channel neither ends the loop nor   *)
(* escapes, and the returned list holds exactly one entry for each channel *)
(* that was processed without an exception, in the order of channel_list,  *)
(* and no entry for a channel that failed.                                 *)
(***************************************************************************)
\* the places in channel_list of the channels that raised
Failed ==
    {c \in 1..Len(channel_list) :
        \E k \in 1..Len(failed_channels) :
            failed_channels[k].channel = channel_list[c]}

\* the places in channel_list of the entries of the result
Succeeded == {stored[k].index : k \in 1..Len(stored)}

C24_FailuresIsolated ==
    /\ ch_pc \in {"for", "resolve", "info", "uploads", "pages", "stats", "batch",
                  "gcv_return", "enrich", "raise", "returned"}
    /\ Len(all_channels_data) = Len(stored)
    /\ \A j, k \in 1..Len(stored) : j < k => stored[j].index < stored[k].index
    /\ \A k \in 1..Len(stored) :
          all_channels_data[k].channel = stored[k].channel
    /\ ch_pc \in {"for", "returned"} =>
          /\ Succeeded \cup Failed = 1..(cur - 1)
          /\ Succeeded \cap Failed = {}
          /\ Len(stored) + Len(failed_channels) = cur - 1
    /\ ch_pc = "returned" => cur = Len(channel_list) + 1

\* the first channel fails, the second is in the result
C24_Witness ==
    /\ ch_pc = "returned"
    /\ Len(channel_list) = 2
    /\ Failed = {1}
    /\ Succeeded = {2}
    /\ Len(all_channels_data) = 1

(***************************************************************************)
(* C25. get_channel_videos resolves the channel by channel_id, then        *)
(* username, then custom_url: with all three None it raises ValueError     *)
(* before any request; with channel_id given it makes no lookup; otherwise *)
(* it makes exactly one lookup; and get_channel_info is never called with  *)
(* channel_id None.                                                        *)
(***************************************************************************)
\* the lookups made for the channel in hand
Lookups == requested \cap {"channels.forUsername", "search"}

\* the channel in hand is past its resolution
Resolved ==
    ch_pc \in {"info", "uploads", "pages", "stats", "batch", "gcv_return",
               "enrich", "raise"}

GivenId == DictGet(channel_list[cur], "channel_id", None)
GivenName == DictGet(channel_list[cur], "username", None)
GivenUrl == DictGet(channel_list[cur], "custom_url", None)

C25_AsStated ==
    Resolved =>
        /\ (GivenId = None /\ GivenName = None /\ GivenUrl = None) =>
              ch_pc = "raise" /\ requested = {}
        /\ GivenId # None => Lookups = {}
        /\ (GivenId = None /\ (GivenName # None \/ GivenUrl # None)) =>
              Cardinality(Lookups) = 1
        /\ "channels.statistics" \in requested => channel_id # None

\* C25 with a username or custom_url counted as given when it is not empty:
\* get_channel_info is called with None exactly when neither is
C25_ByTruth ==
    Resolved =>
        /\ (GivenId = None /\ GivenName = None /\ GivenUrl = None) =>
              ch_pc = "raise" /\ requested = {}
        /\ GivenId # None => Lookups = {}
        /\ (GivenId = None /\ Truthy(GivenName)) =>
              Lookups = {"channels.forUsername"}
        /\ (GivenId = None /\ ~Truthy(GivenName) /\ Truthy(GivenUrl)) =>
              Lookups = {"search"}
        /\ (GivenId = None /\ ~Truthy(GivenName) /\ ~Truthy(GivenUrl)) =>
              Lookups = {}
        /\ "channels.statistics" \in requested =>
              (channel_id = None <=>
                  /\ GivenId = None /\ ~Truthy(GivenName) /\ ~Truthy(GivenUrl)
                  /\ (GivenName # None \/ GivenUrl # None))

(***************************************************************************)
(* C28. The methods calculate_engagement_metrics and parse_duration of the *)
(* class of main.py return, for the same arguments, what the functions of  *)
(* metrics.py return, and both orchestration loops derive the same integer *)
(* subscriber_count from the same channel_info.                            *)
(***************************************************************************)
C28_TwinsAgree ==
    /\ pd_pc = "done" => MainParseDuration(duration) = Returned(pd_result)
    /\ pd_pc = "raised" => MainParseDuration(duration).raised
    /\ pc \in {"loop", "done"} =>
          \A i \in Outputs :
              LET twin == MainDerivedFields(Input(i), subscriber_count)
              IN  /\ ~twin.raised
                  /\ Enriched(i) = DictUpdate(Input(i), twin.val)
    /\ pc = "done" => Len(enhanced_videos) = Len(call_videos)
    /\ pc = "raised" =>
          MainDerivedFields(call_heap[videos[idx]], subscriber_count).raised
    /\ \A k \in 1..Len(fetched) :
          MainSubscriberCount(fetched[k].channel_info)
              = SubscriberCount(fetched[k].channel_info)
    /\ \A k \in 1..Len(enrich_log) :
          \E f \in FetchedFor(enrich_log[k].channel) :
              MainSubscriberCount(fetched[f].channel_info)
                  = Ok(enrich_log[k].subscriber_count)

\* a channel of three subscribers whose video has views and a duration
C28_Witness ==
    /\ ch_pc = "enrich"
    /\ pc = "done"
    /\ enrich_log # <<>>
    /\ subscriber_count = 3
    /\ \E i \in Outputs :
          /\ Enriched(i)["view_rate"] > 0
          /\ Enriched(i)["duration_seconds"] > 0

Went(source) == \E k \in 1..Len(tried) : tried[k] = source

\* get_transcript has returned or raised
Ended == tr_pc \in {"returned", "raised", "saved"}

NoSuchTranscript ==
    /\ sources.fetch.kind = "raise"
    /\ sources.fetch.type \in {"TranscriptsDisabled", "NoTranscriptFound"}

C26_SourceOrder ==
    /\ tried \in {<<>>, <<"preferred">>, <<"preferred", "available">>,
                  <<"preferred", "fallback">>,
                  <<"preferred", "fallback", "file">>,
                  <<"preferred", "available", "fallback">>,
                  <<"preferred", "available", "fallback", "file">>}
    /\ Went("available") <=> (NoSuchTranscript /\ tr_pc \notin {"fetch", "list"})
    /\ Went("fallback") =>
          /\ sources.fetch.kind = "raise"
          /\ Went("available") => sources.list.kind = "raise"
    /\ Went("file") => Went("fallback")
    /\ Ended =>
          /\ sources.fetch.kind = "ok" =>
                /\ tried = <<"preferred">>
                /\ tr_result = Str(FormatTranscript(sources.fetch.transcript))
          /\ (NoSuchTranscript /\ sources.list.kind = "ok") =>
                /\ tried = <<"preferred", "available">>
                /\ tr_result = Str(FormatTranscript(sources.list.transcript))
          /\ (sources.fetch.kind = "raise" /\ ~NoSuchTranscript) =>
                ~Went("available") /\ Went("fallback")
          /\ (NoSuchTranscript /\ sources.list.kind = "raise") =>
                Went("fallback")

\* neither network source has a transcript, and the fallback file is read
C26_Witness ==
    /\ tr_pc = "returned"
    /\ tried = <<"preferred", "available", "fallback", "file">>
    /\ tr_result.type = "str"
    /\ tr_result.text = <<"d">>

(***************************************************************************)
(* C27. get_transcript returns a str or raises RuntimeError and nothing    *)
(* else: it raises RuntimeError exactly when every network source it went  *)
(* to failed and there is no usable fallback (the fixtures variable unset  *)
(* or empty, the file missing or no regular file, or its content empty     *)
(* once stripped), and save_transcript then writes no file.                *)
(***************************************************************************)
NetworkFailed ==
    /\ sources.fetch.kind = "raise"
    /\ NoSuchTranscript => sources.list.kind = "raise"

NoUsableFallback ==
    \/ sources.env \in {"unset", "empty"}
    \/ sources.file.kind \in {"missing", "directory"}
    \/ sources.file.kind = "file" /\ Strip(sources.file.content) = <<>>

C27_AsStated ==
    Ended =>
        /\ tr_result.type \in {"str", "RuntimeError"}
        /\ tr_result.type = "RuntimeError" <=> (NetworkFailed /\ NoUsableFallback)
        /\ tr_pc = "raised" => written = <<>>

\* C27 but for a fallback file that cannot be read: the exception of reading
\* it leaves get_transcript as it is
C27_ButUnreadable ==
    Ended =>
        /\ tr_result.type = "RuntimeError" <=> (NetworkFailed /\ NoUsableFallback)
        /\ tr_result.type \notin {"str", "RuntimeError"} <=>
              /\ NetworkFailed
              /\ sources.env = "dir"
              /\ sources.file.kind = "unreadable"
        /\ tr_pc = "raised" <=> tr_result.type # "str"
        /\ tr_pc = "raised" => written = <<>>
        /\ tr_pc = "saved" =>
              /\ Len(written) = 1
              /\ written[1].text = tr_result.text

====
